---------------------------- MODULE Spec2Model ----------------------------
(***************************************************************************)
(* The Graham Braille bridge: the job event bus (bridge/debug.go), the     *)
(* /testprint and /log-stream handlers, and the Unix print backend.        *)
(*                                                                         *)
(* Every request handler is a goroutine; its position is a program         *)
(* counter.  Go strings that the program builds are sequences of their     *)
(* parts, so that the empty string is <<>>.                                *)
(***************************************************************************)
EXTENDS Integers, Sequences, FiniteSets, TLC

(* ------------------------------ bounds -------------------------------- *)

\* Goroutines serving /print and /testprint requests.
NumHandlers == 2
\* /log-stream connections.
NumConns == 1
\* Requests admitted in a run of Spec.
MaxRequests == 3
\* Requests admitted in a run of SpecHttp, SpecPrint and SpecStatus.
MaxHttpRequests == 2
\* GET /status requests answered in a run of SpecStatus.
MaxStatusCalls == 2
\* Requests admitted in a run of SpecRing: past the ring's capacity.
MaxRingJobs == 202
\* Requests admitted in a run of SpecBus: past a mailbox's capacity.
MaxBusJobs == 9
\* Requests admitted in a run of SpecCancel.
MaxCancelJobs == 1
\* GET /printers requests admitted in a run of SpecPrinters.
MaxPrintersCalls == 2
\* The longest lpstat output, in tokens.
MaxLpstatLen == 3
\* poll() calls made in a run of SpecClient.
MaxPolls == 5
\* startBridgeStatusPolling calls made by the page
NumPollers == 2
\* poll() calls of each call when two pollers run
MaxPollerPolls == 2
\* the length of the printer name typed into PrintPanel, in tokens
MaxNameLen == 2
\* the length of a text handed to splitIntoChunks, in characters
MaxTextLen == 5
\* the largest maxSize handed to splitIntoChunks
MaxChunkSize == 3
\* translate() calls made by the page
MaxTranslateCalls == 3
\* the length of the rawText given to PerkinsViewer, in characters
MaxRawLen == 3
\* the length of the data handed to hexDump, in bytes
MaxDumpLen == 258
\* Requests admitted in a run of SpecBackend.
MaxBackendJobs == 2
\* The names os.CreateTemp can draw for "braillevibe-*.brf".
NumTempNames == 3

Handlers == 1 .. NumHandlers
Conns == 1 .. NumConns
\* The two /log-stream connections of SpecBus and SpecCancel.
Streams == {1, 2}
\* Every /log-stream connection of any specification.
AllConns == Conns \cup Streams
TempNames == 1 .. NumTempNames
\* the startBridgeStatusPolling calls; call p creates the interval with id p
Pollers == 1 .. NumPollers

(* ------------------------- program constants -------------------------- *)

\* jobs = jobs[len(jobs)-200:]
RingCap == 200
\* make(chan JobEvent, 8)
MailboxCap == 8
\* braille.worker: texts up to this length are translated in one call
CHUNK_THRESHOLD == 5000
\* braille.worker: the maxSize splitIntoChunks is called with
CHUNK_MAX_SIZE == 5000
\* hexDump: the bytes dumped at most, and the bytes of a row
DumpLimit == 256
RowBytes == 16
\* const testBRF, as bytes
testBRF ==
    <<44, 71, 82, 65, 72, 65, 77, 32, 66, 82, 73, 68, 71, 69, 32,
       84, 69, 47, 32, 80, 65, 71, 69, 13, 10, 13, 10, 97, 98, 99,
       100, 101, 102, 103, 104, 105, 106, 13, 10, 107, 108, 109, 110, 111, 112,
       113, 114, 115, 116, 13, 10, 117, 118, 119, 120, 121, 122, 13, 10, 13,
       10, 35, 97, 32, 35, 98, 32, 35, 99, 32, 35, 100, 32, 35, 101,
       13, 10, 13, 10, 104, 101, 108, 108, 111, 32, 95, 119, 46, 13, 10>>

StatusOK == 200
StatusBadRequest == 400
StatusMethodNotAllowed == 405
StatusInternalServerError == 500

(* ------------------------------ inputs -------------------------------- *)

\* The base64 texts a /print body may carry, with what they decode to
\* (a sequence of bytes), or "undecodable".
Base64Texts == {"", "QQ==", "!!"}

Base64Decodes(s) == s \in {"", "QQ=="}

Base64Decode(s) == IF s = "QQ==" THEN <<65>> ELSE <<>>

\* A request: the endpoint, the method, whether the body parses as the JSON
\* object the handler decodes into, and the decoded fields.
TestPrintRequests ==
    [endpoint : {"/testprint"}, method : {"POST", "GET"}, parses : BOOLEAN,
     printer : {"", "Embosser"}, data : {""}]

PrintRequests ==
    [endpoint : {"/print"}, method : {"POST"}, parses : BOOLEAN,
     printer : {"", "Embosser"}, data : Base64Texts]

\* POST /testprint {"printer":"Embosser"}
ValidTestPrint ==
    [endpoint |-> "/testprint", method |-> "POST", parses |-> TRUE,
     printer |-> "Embosser", data |-> ""]

\* What the operating system does with one sendToPrinter call: the first
\* step that fails, or "ok".
OsOutcomes == {"ok", "create", "write", "close", "lp"}

NoRequest ==
    [endpoint |-> "", method |-> "", parses |-> FALSE, printer |-> "", data |-> ""]

NoEvent == [id |-> 0, printer |-> "", bytes |-> 0, err |-> <<>>]

NoResponse == [status |-> 0, body |-> <<>>]

\* The output of an lpstat command is a sequence of tokens: a word, a blank,
\* a line break.
LpstatTokens == {"Embosser", " ", "\n"}

LpstatOutputs == UNION {[1 .. n -> LpstatTokens] : n \in 0 .. MaxLpstatLen}

\* exec.Command(...).Output(): the command ran and failed, or gave its output
LpstatResults ==
    {[ran |-> TRUE, fails |-> TRUE, out |-> <<>>]}
        \cup {[ran |-> TRUE, fails |-> FALSE, out |-> o] : o \in LpstatOutputs}

\* The command was not run.
LpstatNotRun == [ran |-> FALSE, fails |-> FALSE, out |-> <<>>]

\* No listPrinters call yet.
NoLpstat == [a |-> LpstatNotRun, b |-> LpstatNotRun]

\* What fetch(BRIDGE_BASE + "/print") does: it throws (no bridge, or the 10 s
\* AbortSignal.timeout), or resolves with a response, whose body res.text()
\* then reads or fails to read.
PrintFetchOutcomes ==
    {[throws |-> TRUE, status |-> 0, body |-> "", textFails |-> FALSE]}
        \cup [throws : {FALSE},
              status : {StatusOK, 204, StatusBadRequest, StatusMethodNotAllowed,
                        StatusInternalServerError},
              body : {"", "ok", "printer name is required\n", "lp command failed\n"},
              textFails : BOOLEAN]

\* No printBrf call is awaiting its fetch.
NoPrintCall == [printer |-> <<>>, data |-> ""]

\* No fetch of /print has settled for the current print.
NoFetch == [throws |-> FALSE, status |-> 0, body |-> "", textFails |-> FALSE]

\* No render of PerkinsViewer yet.
NoRender == [length |-> 0, index |-> 0, reads |-> FALSE, threw |-> FALSE]

NoExchange ==
    [req |-> NoRequest, resp |-> NoResponse, err |-> <<>>, event |-> NoEvent,
     osCalls |-> 0, appended |-> 0]

(* ------------------------------- state -------------------------------- *)

VARIABLES
    jobs,       \* var jobs []JobEvent
    nextID,     \* var nextID = 1
    jobMuW,     \* jobMu: the handler holding the write lock, or 0
    jobMuR,     \* jobMu: the connections holding a read lock
    subsMu,     \* subsMu: the handler holding it, or 0
    subs,       \* var subs []chan JobEvent (a channel is its connection)
    mailbox,    \* the buffer of each connection's channel
    hpc,        \* each print handler's position
    req,        \* the request a handler serves
    data,       \* the bytes handed to sendToPrinter
    err,        \* what sendToPrinter returned (<<>> is nil)
    e,          \* the handler's JobEvent
    bi,         \* the index of appendJob's loop over subs
    spc,        \* each /log-stream handler's position
    existing,   \* the replay snapshot of a /log-stream handler
    written,    \* the events written to a connection, in order
    ctxDone,    \* r.Context().Done() is closed
    started,    \* requests admitted so far
    exchange,   \* the request answered last, with its response and what
                \* its handler did: what sendToPrinter returned, the event
                \* recorded, its calls of sendToPrinter, its appends to jobs
    lockCount,  \* history: how many times jobMu.Lock() was acquired
    ticket,     \* history: the rank of a handler's acquisition of jobMu
    recorded,   \* history: each append to jobs, in order: the id stored, the
                \* bytes the attempt handed to sendToPrinter and the error
                \* that call returned
    osCalls,    \* history: sendToPrinter calls made for the current request
    appended,   \* history: appends made for the current request
    dropped,    \* history: the ids dropped at a connection's full mailbox
    files,      \* the temporary files present in os.TempDir()
    tmp,        \* sendToPrinter: tmp.Name() of a handler's call (0 outside)
    lpRuns,     \* history: lp commands spawned by a handler's sendToPrinter call
    steps,      \* history: the operating-system calls of a handler's
                \* sendToPrinter call, in order, each with its outcome
    statusCalls,\* history: GET /status requests answered
    lpstat,     \* what the lpstat commands of the last listPrinters call did
    pollTimer,  \* bridge-client: let pollTimer, an interval id (0 is null)
    intervals,  \* the interval timers that are running (setInterval ids)
    lastState,  \* startBridgeStatusPolling: let lastState ("null" at first),
                \* one per call
    onChangeCalls, \* history: the arguments of each call's onChange calls
    inflight,   \* each call's poll() calls awaiting checkBridgeStatus()
    polls,      \* each call's poll() calls made so far
    cleaned,    \* history: the call's cleanup function has been called
    panelPrinterName, \* PrintPanel: useState('') printerName
    brf,        \* PrintPanel: the brf prop
    status,     \* PrintPanel: useState('idle') status
    errorMsg,   \* PrintPanel: useState('') errorMsg (a message in parts)
    printCall,  \* the printBrf call awaiting its fetch, if any
    lastFetch,  \* history: what the fetch of the last printBrf call did
    hook,       \* useBraille: translatedText, isLoading, progress, error,
                \* workerReady
    ready,      \* braille.worker: let ready
    workerQueue,\* the messages posted to the worker and not yet handled
    responses,  \* the messages posted by the worker and not yet handled
    translateCalls, \* history: the text of each translate() call, in order
    shownFor,   \* history: the translate() call whose RESULT was applied last
    rawText,    \* PerkinsViewer: the rawText prop
    currentIndex, \* PerkinsViewer: useState(0) currentIndex
    needsRender,\* PerkinsViewer: a render is scheduled
    render,     \* history: what the last render of PerkinsViewer read
    text,       \* splitIntoChunks: text
    maxSize,    \* splitIntoChunks: maxSize
    start,      \* splitIntoChunks: let start
    chunks,     \* splitIntoChunks: const chunks
    splitPc,    \* splitIntoChunks: the position of the call
    dumpData,   \* hexDump: data
    dumpOut     \* hexDump: the rows written to sb

vars == <<jobs, nextID, jobMuW, jobMuR, subsMu, subs, mailbox, hpc, req, data,
          err, e, bi, spc, existing, written, ctxDone, started, exchange,
          lockCount, ticket, recorded, osCalls, appended, dropped, files, tmp,
          lpRuns, steps, statusCalls, lpstat, pollTimer, intervals, lastState,
          onChangeCalls, inflight, polls, cleaned, panelPrinterName, brf, status,
          errorMsg, printCall, lastFetch, hook, ready, workerQueue, responses,
          translateCalls, shownFor, rawText, currentIndex, needsRender, render,
          text, maxSize, start, chunks, splitPc, dumpData, dumpOut>>

busVars == <<jobs, nextID, jobMuW, jobMuR, subsMu, subs, mailbox>>
handlerVars == <<hpc, req, data, err, e, bi>>
streamVars == <<spc, existing, written, ctxDone>>
historyVars == <<lockCount, ticket, recorded, osCalls, appended, dropped>>
backendVars == <<files, tmp, lpRuns, steps>>
adminVars == <<statusCalls, lpstat>>
clientVars == <<pollTimer, intervals, lastState, onChangeCalls, inflight, polls,
                cleaned>>
extVars == <<backendVars, adminVars, clientVars>>
serverVars == <<busVars, handlerVars, streamVars, started, exchange, historyVars,
                backendVars, adminVars>>
panelVars == <<panelPrinterName, brf, status, errorMsg, printCall, lastFetch>>
hookVars == <<hook, ready, workerQueue, responses, translateCalls, shownFor>>
viewerVars == <<rawText, currentIndex, needsRender, render>>
chunkVars == <<text, maxSize, start, chunks, splitPc>>
dumpVars == <<dumpData, dumpOut>>
uiVars == <<panelVars, hookVars, viewerVars, chunkVars, dumpVars>>

Init ==
    /\ jobs = <<>>
    /\ nextID = 1
    /\ jobMuW = 0
    /\ jobMuR = {}
    /\ subsMu = 0
    /\ subs = <<>>
    /\ mailbox = [c \in AllConns |-> <<>>]
    /\ hpc = [h \in Handlers |-> "idle"]
    /\ req = [h \in Handlers |-> NoRequest]
    /\ data = [h \in Handlers |-> <<>>]
    /\ err = [h \in Handlers |-> <<>>]
    /\ e = [h \in Handlers |-> NoEvent]
    /\ bi = [h \in Handlers |-> 0]
    /\ spc = [c \in AllConns |-> "idle"]
    /\ existing = [c \in AllConns |-> <<>>]
    /\ written = [c \in AllConns |-> <<>>]
    /\ ctxDone = [c \in AllConns |-> FALSE]
    /\ started = 0
    /\ exchange = NoExchange
    /\ lockCount = 0
    /\ ticket = [h \in Handlers |-> 0]
    /\ recorded = <<>>
    /\ osCalls = [h \in Handlers |-> 0]
    /\ appended = [h \in Handlers |-> 0]
    /\ dropped = [c \in AllConns |-> {}]
    /\ files = {}
    /\ tmp = [h \in Handlers |-> 0]
    /\ lpRuns = [h \in Handlers |-> 0]
    /\ steps = [h \in Handlers |-> <<>>]
    /\ statusCalls = 0
    /\ lpstat = NoLpstat
    /\ pollTimer = 0
    /\ intervals = {}
    /\ lastState = [p \in Pollers |-> "null"]
    /\ onChangeCalls = [p \in Pollers |-> <<>>]
    /\ inflight = [p \in Pollers |-> 0]
    /\ polls = [p \in Pollers |-> 0]
    /\ cleaned = [p \in Pollers |-> FALSE]
    /\ panelPrinterName = <<>>
    /\ brf = ""
    /\ status = "idle"
    /\ errorMsg = <<>>
    /\ printCall = NoPrintCall
    /\ lastFetch = NoFetch
    /\ hook = [translatedText |-> <<>>, isLoading |-> TRUE, progress |-> 0,
               error |-> <<>>, workerReady |-> FALSE]
    /\ ready = FALSE
    /\ workerQueue = <<>>
    /\ responses = <<>>
    /\ translateCalls = <<>>
    /\ shownFor = 0
    /\ rawText = <<>>
    /\ currentIndex = 0
    /\ needsRender = TRUE
    /\ render = NoRender
    /\ text = <<>>
    /\ maxSize = 1
    /\ start = 0
    /\ chunks = <<>>
    /\ splitPc = "idle"
    /\ dumpData = <<>>
    /\ dumpOut = <<>>

(* ------------------------- the print backend -------------------------- *)

\* sendToPrinter (Unix): the steps run in order and the first failing one
\* returns its error; o names the step the operating system fails, if any.
\* The result is err.Error() in parts, <<>> for nil.
SendToPrinter(printerName, bytes, o) ==
    IF o = "create" THEN <<"create temp file: ", "oserr">>
    ELSE IF o = "write" THEN <<"write temp file: ", "oserr">>
    ELSE IF o = "close" THEN <<"close temp file: ", "oserr">>
    ELSE IF o = "lp" THEN
        <<"lp command failed: ", "exit status 1", "\noutput: ", "lp-output">>
    ELSE <<>>

(* --------------------------- HTTP responses --------------------------- *)

\* http.Error(w, msg, code): the message, then a newline.
HttpError(msg, code) == [status |-> code, body |-> Append(msg, "\n")]

\* w.Write(body) with no WriteHeader: status 200.
HttpWrite(body) == [status |-> StatusOK, body |-> body]

(* -------------------------- request handlers -------------------------- *)

\* A handler goroutine takes request r.
Begin(h, r) ==
    /\ hpc[h] = "idle"
    /\ req' = [req EXCEPT ![h] = r]

\* The handler of request r returns: its locals are gone, and the exchange is
\* on record.
Return(h, r, response) ==
    /\ exchange' = [req |-> r, resp |-> response, err |-> err[h],
                    event |-> e[h], osCalls |-> osCalls[h],
                    appended |-> appended[h]]
    /\ hpc' = [hpc EXCEPT ![h] = "idle"]
    /\ req' = [req EXCEPT ![h] = NoRequest]
    /\ data' = [data EXCEPT ![h] = <<>>]
    /\ err' = [err EXCEPT ![h] = <<>>]
    /\ e' = [e EXCEPT ![h] = NoEvent]
    /\ bi' = [bi EXCEPT ![h] = 0]
    /\ ticket' = [ticket EXCEPT ![h] = 0]
    /\ osCalls' = [osCalls EXCEPT ![h] = 0]
    /\ appended' = [appended EXCEPT ![h] = 0]

\* Mutant of TestPrintRejects: && written for ||.
TestPrintRejects_And(r) == ~r.parses /\ r.printer = ""

\* Mutant of TestPrintRejects: the printer name is not checked.
TestPrintRejects_DecodeOnly(r) == ~r.parses

\* if err := json.NewDecoder(r.Body).Decode(&req); err != nil || req.Printer == ""
TestPrintRejects(r) == ~r.parses \/ r.printer = ""

\* handleTestPrint: r.Method != http.MethodPost
TestPrintMethodNotAllowed(h, r) ==
    /\ r.endpoint = "/testprint"
    /\ r.method # "POST"
    /\ hpc[h] = "idle"
    /\ Return(h, r, HttpError(<<"method not allowed">>, StatusMethodNotAllowed))
    /\ UNCHANGED <<uiVars, extVars, busVars, streamVars, started, lockCount, recorded, dropped>>

\* handleTestPrint: the body does not decode, or names no printer
TestPrintBadRequest(h, r) ==
    /\ r.endpoint = "/testprint"
    /\ r.method = "POST"
    /\ TestPrintRejects(r)
    /\ hpc[h] = "idle"
    /\ Return(h, r, HttpError(<<"printer name required">>, StatusBadRequest))
    /\ UNCHANGED <<uiVars, extVars, busVars, streamVars, started, lockCount, recorded, dropped>>

\* handleTestPrint: data := []byte(testBRF), up to the sendToPrinter call
TestPrintAccept(h, r, bound) ==
    /\ started < bound
    /\ r.endpoint = "/testprint"
    /\ r.method = "POST"
    /\ ~TestPrintRejects(r)
    /\ Begin(h, r)
    /\ data' = [data EXCEPT ![h] = testBRF]
    /\ hpc' = [hpc EXCEPT ![h] = "send"]
    /\ started' = started + 1
    /\ UNCHANGED <<uiVars, extVars, busVars, err, e, bi, streamVars, exchange, historyVars>>

\* POST /print: reject if the printer name is empty or the data undecodable
PrintRejects(r) == ~r.parses \/ r.printer = "" \/ ~Base64Decodes(r.data)

\* POST /print: a malformed request is rejected before any OS interaction
PrintBadRequest(h, r) ==
    /\ r.endpoint = "/print"
    /\ PrintRejects(r)
    /\ hpc[h] = "idle"
    /\ Return(h, r, HttpError(<<"bad request">>, StatusBadRequest))
    /\ UNCHANGED <<uiVars, extVars, busVars, streamVars, started, lockCount, recorded, dropped>>

\* POST /print: decode, then delegate to the print backend
PrintAccept(h, r, bound) ==
    /\ started < bound
    /\ r.endpoint = "/print"
    /\ ~PrintRejects(r)
    /\ Begin(h, r)
    /\ data' = [data EXCEPT ![h] = Base64Decode(r.data)]
    /\ hpc' = [hpc EXCEPT ![h] = "send"]
    /\ started' = started + 1
    /\ UNCHANGED <<uiVars, extVars, busVars, err, e, bi, streamVars, exchange, historyVars>>

\* Mutant of NewJobEvent: e.ErrMsg is never set.
NewJobEvent_NoErrMsg(printer, bytes, error) ==
    [id |-> 0, printer |-> printer, bytes |-> Len(bytes), err |-> <<>>]

\* Mutant of NewJobEvent: the Bytes field is left at its zero value.
NewJobEvent_NoBytes(printer, bytes, error) ==
    [id |-> 0, printer |-> printer, bytes |-> 0, err |-> error]

\* e := JobEvent{Printer: req.Printer, Bytes: len(data), ...}
\* if err != nil { e.ErrMsg = err.Error() }
NewJobEvent(printer, bytes, error) ==
    [id |-> 0, printer |-> printer, bytes |-> Len(bytes), err |-> error]

\* err := sendToPrinter(req.Printer, data), then the JobEvent is built; the
\* operating system decides o.
Dispatch(h, o) ==
    /\ hpc[h] = "send"
    /\ LET error == SendToPrinter(req[h].printer, data[h], o)
       IN /\ err' = [err EXCEPT ![h] = error]
          /\ e' = [e EXCEPT ![h] = NewJobEvent(req[h].printer, data[h], error)]
    /\ osCalls' = [osCalls EXCEPT ![h] = @ + 1]
    /\ hpc' = [hpc EXCEPT ![h] = "aj_lock"]
    /\ UNCHANGED <<uiVars, extVars, busVars, req, data, bi, streamVars, started, exchange,
                   lockCount, ticket, recorded, appended, dropped>>

(* ------------------ sendToPrinter, step by step ----------------------- *)

\* sendToPrinter returns to handleTestPrint, which keeps the error and builds
\* its JobEvent.
SendReturns(h, error) ==
    /\ err' = [err EXCEPT ![h] = error]
    /\ e' = [e EXCEPT ![h] = NewJobEvent(req[h].printer, data[h], error)]
    /\ hpc' = [hpc EXCEPT ![h] = "aj_lock"]

\* sendToPrinter: os.CreateTemp("", "braillevibe-*.brf") creates a file under
\* a name no file of the directory has (O_EXCL); defer os.Remove(tmp.Name())
SendCreateTemp(h, name) ==
    /\ hpc[h] = "send"
    /\ name \notin files
    /\ files' = files \cup {name}
    /\ tmp' = [tmp EXCEPT ![h] = name]
    /\ lpRuns' = [lpRuns EXCEPT ![h] = 0]
    /\ steps' = [steps EXCEPT ![h] = <<<<"CreateTemp", "ok">>>>]
    /\ osCalls' = [osCalls EXCEPT ![h] = @ + 1]
    /\ hpc' = [hpc EXCEPT ![h] = "st_write"]
    /\ UNCHANGED <<uiVars, busVars, req, data, err, e, bi, streamVars, started,
                   exchange, lockCount, ticket, recorded, appended, dropped,
                   adminVars, clientVars>>

\* sendToPrinter: os.CreateTemp fails; no file, nothing deferred
SendCreateTempFails(h) ==
    /\ hpc[h] = "send"
    /\ SendReturns(h, SendToPrinter(req[h].printer, data[h], "create"))
    /\ lpRuns' = [lpRuns EXCEPT ![h] = 0]
    /\ steps' = [steps EXCEPT ![h] = <<<<"CreateTemp", "create">>>>]
    /\ osCalls' = [osCalls EXCEPT ![h] = @ + 1]
    /\ UNCHANGED <<uiVars, busVars, req, data, bi, streamVars, started, exchange,
                   lockCount, ticket, recorded, appended, dropped, files, tmp,
                   adminVars, clientVars>>

\* Mutant of SendWrite: the error of tmp.Write is ignored.
SendWrite_IgnoresError(h, o) ==
    /\ hpc[h] = "st_write"
    /\ hpc' = [hpc EXCEPT ![h] = "st_close"]
    /\ steps' = [steps EXCEPT ![h] = Append(@, <<"Write", o>>)]
    /\ UNCHANGED <<uiVars, busVars, req, data, err, e, bi, streamVars, started,
                   exchange, historyVars, files, tmp, lpRuns, adminVars,
                   clientVars>>

\* sendToPrinter: tmp.Write(data); o is "ok" or "write"
SendWrite(h, o) ==
    /\ hpc[h] = "st_write"
    /\ IF o = "ok"
       THEN /\ hpc' = [hpc EXCEPT ![h] = "st_close"]
            /\ UNCHANGED err
       ELSE /\ hpc' = [hpc EXCEPT ![h] = "st_defer"]
            /\ err' = [err EXCEPT ![h] = SendToPrinter(req[h].printer, data[h], o)]
    /\ steps' = [steps EXCEPT ![h] = Append(@, <<"Write", o>>)]
    /\ UNCHANGED <<uiVars, busVars, req, data, e, bi, streamVars, started, exchange,
                   historyVars, files, tmp, lpRuns, adminVars, clientVars>>

\* sendToPrinter: tmp.Close(); o is "ok" or "close"
SendClose(h, o) ==
    /\ hpc[h] = "st_close"
    /\ IF o = "ok"
       THEN /\ hpc' = [hpc EXCEPT ![h] = "st_lp"]
            /\ UNCHANGED err
       ELSE /\ hpc' = [hpc EXCEPT ![h] = "st_defer"]
            /\ err' = [err EXCEPT ![h] = SendToPrinter(req[h].printer, data[h], o)]
    /\ steps' = [steps EXCEPT ![h] = Append(@, <<"Close", o>>)]
    /\ UNCHANGED <<uiVars, busVars, req, data, e, bi, streamVars, started, exchange,
                   historyVars, files, tmp, lpRuns, adminVars, clientVars>>

\* Mutant of SendLp: a failed lp command is run again.
SendLp_Retries(h, o) ==
    /\ hpc[h] = "st_lp"
    /\ lpRuns' = [lpRuns EXCEPT ![h] = @ + 1]
    /\ IF o = "ok" \/ lpRuns[h] > 0
       THEN /\ hpc' = [hpc EXCEPT ![h] = "st_defer"]
            /\ err' = [err EXCEPT ![h] = SendToPrinter(req[h].printer, data[h], o)]
       ELSE UNCHANGED <<hpc, err>>
    /\ steps' = [steps EXCEPT ![h] = Append(@, <<"lp", o>>)]
    /\ UNCHANGED <<uiVars, busVars, req, data, e, bi, streamVars, started, exchange,
                   historyVars, files, tmp, adminVars, clientVars>>

\* sendToPrinter: exec.Command("lp", "-d", printerName, "-o", "raw",
\* tmp.Name()).CombinedOutput(); o is "ok" or "lp"
SendLp(h, o) ==
    /\ hpc[h] = "st_lp"
    /\ lpRuns' = [lpRuns EXCEPT ![h] = @ + 1]
    /\ err' = [err EXCEPT ![h] = SendToPrinter(req[h].printer, data[h], o)]
    /\ steps' = [steps EXCEPT ![h] = Append(@, <<"lp", o>>)]
    /\ hpc' = [hpc EXCEPT ![h] = "st_defer"]
    /\ UNCHANGED <<uiVars, busVars, req, data, e, bi, streamVars, started, exchange,
                   historyVars, files, tmp, adminVars, clientVars>>

\* Mutant of SendDeferredRemove: the file is left behind.
SendDeferredRemove_NoRemove(h) ==
    /\ hpc[h] = "st_defer"
    /\ tmp' = [tmp EXCEPT ![h] = 0]
    /\ SendReturns(h, err[h])
    /\ UNCHANGED <<uiVars, busVars, req, data, bi, streamVars, started, exchange,
                   historyVars, files, lpRuns, steps, adminVars, clientVars>>

\* sendToPrinter returns: the deferred os.Remove(tmp.Name()) runs, and the
\* error (nil on success) goes back to the handler
SendDeferredRemove(h) ==
    /\ hpc[h] = "st_defer"
    /\ files' = files \ {tmp[h]}
    /\ tmp' = [tmp EXCEPT ![h] = 0]
    /\ SendReturns(h, err[h])
    /\ UNCHANGED <<uiVars, busVars, req, data, bi, streamVars, started, exchange,
                   historyVars, lpRuns, steps, adminVars, clientVars>>

\* sendToPrinter, statement by statement
SendStep(h) ==
    \/ \E name \in TempNames : SendCreateTemp(h, name)
    \/ SendCreateTempFails(h)
    \/ \E o \in {"ok", "write"} : SendWrite(h, o)
    \/ \E o \in {"ok", "close"} : SendClose(h, o)
    \/ \E o \in {"ok", "lp"} : SendLp(h, o)
    \/ SendDeferredRemove(h)

(* ----------------------------- GET /printers --------------------------- *)

RECURSIVE Split(_)
\* strings.Split(s, "\n"): the lines of s, one more than its line breaks
Split(s) ==
    IF \A i \in 1 .. Len(s) : s[i] # "\n" THEN <<s>>
    ELSE LET k == CHOOSE i \in 1 .. Len(s) :
                      s[i] = "\n" /\ \A j \in 1 .. i - 1 : s[j] # "\n"
         IN <<SubSeq(s, 1, k - 1)>> \o Split(SubSeq(s, k + 1, Len(s)))

RECURSIVE Fields(_)
\* strings.Fields(line): the maximal runs of non-blank tokens
Fields(line) ==
    IF line = <<>> THEN <<>>
    ELSE IF Head(line) = " " THEN Fields(Tail(line))
    ELSE LET stop == IF \E i \in 1 .. Len(line) : line[i] = " "
                     THEN CHOOSE i \in 1 .. Len(line) :
                              line[i] = " " /\ \A j \in 1 .. i - 1 : line[j] # " "
                     ELSE Len(line) + 1
         IN <<SubSeq(line, 1, stop - 1)>> \o Fields(SubSeq(line, stop, Len(line)))

\* A Go slice of strings: nil, or its elements.
NilSlice == [isNil |-> TRUE, elems |-> <<>>]

\* append(result, s): never nil
AppendSlice(result, s) == [isNil |-> FALSE, elems |-> Append(result.elems, s)]

RECURSIVE ParseLpstat(_, _)
\* listPrinters: var result []string; for each line, its first field if any
ParseLpstat(lines, result) ==
    IF lines = <<>> THEN result
    ELSE LET fields == Fields(Head(lines))
         IN ParseLpstat(Tail(lines),
                        IF Len(fields) > 0 THEN AppendSlice(result, fields[1])
                        ELSE result)

\* listPrinters: lpstat -a, on failure lpstat, on failure nil
ListPrinters(a, b) ==
    IF ~a.fails THEN ParseLpstat(Split(a.out), NilSlice)
    ELSE IF ~b.fails THEN ParseLpstat(Split(b.out), NilSlice)
    ELSE NilSlice

RECURSIVE JsonElems(_)
\* the elements of a JSON array, with commas between them
JsonElems(elems) ==
    IF elems = <<>> THEN <<>>
    ELSE IF Len(elems) = 1 THEN <<elems[1]>>
    ELSE <<elems[1], <<",">> >> \o JsonElems(Tail(elems))

\* json.NewEncoder(w).Encode(printers): a nil slice is null; a line break ends
\* the value.  The body is in parts; a string element is its tokens.
JsonEncode(slice) ==
    IF slice.isNil THEN << <<"null">>, <<"\n">> >>
    ELSE << <<"[">> >> \o JsonElems(slice.elems) \o << <<"]">>, <<"\n">> >>

PrintersRequest ==
    [endpoint |-> "/printers", method |-> "GET", parses |-> FALSE,
     printer |-> "", data |-> ""]

\* handlePrinters: printers := listPrinters(); json.NewEncoder(w).Encode(printers)
\* a and b are what lpstat -a and lpstat do; lpstat runs only if lpstat -a fails
HandlePrinters(a, b, bound) ==
    /\ started < bound
    /\ started' = started + 1
    /\ lpstat' = [a |-> a, b |-> IF a.fails THEN b ELSE LpstatNotRun]
    /\ exchange' = [req |-> PrintersRequest,
                    resp |-> HttpWrite(JsonEncode(ListPrinters(a, b))),
                    err |-> <<>>, event |-> NoEvent, osCalls |-> 0,
                    appended |-> 0]
    /\ UNCHANGED <<uiVars, busVars, handlerVars, streamVars, historyVars, backendVars,
                   statusCalls, clientVars>>

(* ------------------------------ GET /status --------------------------- *)

StatusRequest ==
    [endpoint |-> "/status", method |-> "GET", parses |-> FALSE,
     printer |-> "", data |-> ""]

\* Mutant of HandleStatus: the liveness probe is recorded as a job.
HandleStatus_Records(bound) ==
    /\ statusCalls < bound
    /\ jobMuW = 0
    /\ statusCalls' = statusCalls + 1
    /\ jobs' = Append(jobs, [NoEvent EXCEPT !.id = nextID])
    /\ nextID' = nextID + 1
    /\ exchange' = [req |-> StatusRequest,
                    resp |-> HttpWrite(<<"{\"status\":\"ok\"}">>),
                    err |-> <<>>, event |-> NoEvent, osCalls |-> 0,
                    appended |-> 0]
    /\ UNCHANGED <<uiVars, jobMuW, jobMuR, subsMu, subs, mailbox, handlerVars,
                   streamVars, started, historyVars, backendVars, lpstat,
                   clientVars>>

\* GET /status: always 200 {"status":"ok"}; nothing else happens
HandleStatus(bound) ==
    /\ statusCalls < bound
    /\ statusCalls' = statusCalls + 1
    /\ exchange' = [req |-> StatusRequest,
                    resp |-> HttpWrite(<<"{\"status\":\"ok\"}">>),
                    err |-> <<>>, event |-> NoEvent, osCalls |-> 0,
                    appended |-> 0]
    /\ UNCHANGED <<uiVars, busVars, handlerVars, streamVars, started, historyVars,
                   backendVars, lpstat, clientVars>>

(* ---------------------------- the event bus --------------------------- *)

\* Mutant of JobMuLockable: appendJob without mutual exclusion.
JobMuLockable_NoExclusion == TRUE

\* jobMu.Lock() may proceed: no writer and no reader holds jobMu.
JobMuLockable == jobMuW = 0 /\ jobMuR = {}

\* jobMu.RLock() may proceed: no writer holds jobMu.
JobMuRLockable == jobMuW = 0

\* Mutant of RingTrim: the slice keeps the first 200, jobs[:200].
RingTrim_KeepsOldest(js) ==
    IF Len(js) > RingCap THEN SubSeq(js, 1, RingCap) ELSE js

\* if len(jobs) > 200 { jobs = jobs[len(jobs)-200:] }
RingTrim(js) ==
    IF Len(js) > RingCap THEN SubSeq(js, Len(js) - RingCap + 1, Len(js)) ELSE js

\* appendJob: jobMu.Lock()
AppendJobLock(h) ==
    /\ hpc[h] = "aj_lock"
    /\ JobMuLockable
    /\ jobMuW' = h
    /\ lockCount' = lockCount + 1
    /\ ticket' = [ticket EXCEPT ![h] = lockCount + 1]
    /\ hpc' = [hpc EXCEPT ![h] = "aj_id"]
    /\ UNCHANGED <<uiVars, extVars, jobs, nextID, jobMuR, subsMu, subs, mailbox, req, data, err,
                   e, bi, streamVars, started, exchange, recorded, osCalls,
                   appended, dropped>>

\* appendJob: e.ID = nextID
AppendJobAssign(h) ==
    /\ hpc[h] = "aj_id"
    /\ e' = [e EXCEPT ![h].id = nextID]
    /\ hpc' = [hpc EXCEPT ![h] = "aj_inc"]
    /\ UNCHANGED <<uiVars, extVars, busVars, req, data, err, bi, streamVars, started, exchange,
                   historyVars>>

\* appendJob: nextID++
AppendJobIncrement(h) ==
    /\ hpc[h] = "aj_inc"
    /\ nextID' = nextID + 1
    /\ hpc' = [hpc EXCEPT ![h] = "aj_append"]
    /\ UNCHANGED <<uiVars, extVars, jobs, jobMuW, jobMuR, subsMu, subs, mailbox, req, data, err,
                   e, bi, streamVars, started, exchange, historyVars>>

\* appendJob: jobs = append(jobs, e)
AppendJobAppend(h) ==
    /\ hpc[h] = "aj_append"
    /\ jobs' = Append(jobs, e[h])
    /\ recorded' = Append(recorded, [id |-> e[h].id, handed |-> data[h],
                                     returned |-> err[h]])
    /\ appended' = [appended EXCEPT ![h] = @ + 1]
    /\ hpc' = [hpc EXCEPT ![h] = "aj_trim"]
    /\ UNCHANGED <<uiVars, extVars, nextID, jobMuW, jobMuR, subsMu, subs, mailbox, req, data,
                   err, e, bi, streamVars, started, exchange, lockCount, ticket,
                   osCalls, dropped>>

\* Mutant of AppendJobUnlock: jobMu is still held when the broadcast starts.
AppendJobUnlock_KeepsLock(h) ==
    /\ hpc[h] = "aj_trim"
    /\ jobs' = RingTrim(jobs)
    /\ hpc' = [hpc EXCEPT ![h] = "bc_lock"]
    /\ UNCHANGED <<uiVars, extVars, nextID, jobMuW, jobMuR, subsMu, subs, mailbox, req, data,
                   err, e, bi, streamVars, started, exchange, historyVars>>

\* appendJob: the trim to the last 200, then jobMu.Unlock()
AppendJobUnlock(h) ==
    /\ hpc[h] = "aj_trim"
    /\ jobs' = RingTrim(jobs)
    /\ jobMuW' = 0
    /\ hpc' = [hpc EXCEPT ![h] = "bc_lock"]
    /\ UNCHANGED <<uiVars, extVars, nextID, jobMuR, subsMu, subs, mailbox, req, data, err, e,
                   bi, streamVars, started, exchange, historyVars>>

\* appendJob: subsMu.Lock()
BroadcastLock(h) ==
    /\ hpc[h] = "bc_lock"
    /\ subsMu = 0
    /\ subsMu' = h
    /\ bi' = [bi EXCEPT ![h] = 1]
    /\ hpc' = [hpc EXCEPT ![h] = "bc_send"]
    /\ UNCHANGED <<uiVars, extVars, jobs, nextID, jobMuW, jobMuR, subs, mailbox, req, data, err,
                   e, streamVars, started, exchange, historyVars>>

\* select { case ch <- e: default: }: the send succeeds when the buffer has room
ChanHasRoom(c) == Len(mailbox[c]) < MailboxCap

\* Mutant of BroadcastSend: the loop ends at the first full mailbox.
BroadcastSend_StopsAtFull(h) ==
    /\ hpc[h] = "bc_send"
    /\ bi[h] <= Len(subs)
    /\ LET c == subs[bi[h]]
       IN IF ChanHasRoom(c)
          THEN /\ mailbox' = [mailbox EXCEPT ![c] = Append(@, e[h])]
               /\ bi' = [bi EXCEPT ![h] = @ + 1]
               /\ UNCHANGED dropped
          ELSE /\ dropped' = [dropped EXCEPT ![c] = @ \cup {e[h].id}]
               /\ bi' = [bi EXCEPT ![h] = Len(subs) + 1]
               /\ UNCHANGED mailbox
    /\ UNCHANGED <<uiVars, extVars, jobs, nextID, jobMuW, jobMuR, subsMu, subs, hpc,
                   req, data, err, e, streamVars, started, exchange, lockCount,
                   ticket, recorded, osCalls, appended>>

\* Mutant of BroadcastSend: a blocking send, ch <- e without the default case.
BroadcastSend_Blocking(h) ==
    /\ hpc[h] = "bc_send"
    /\ bi[h] <= Len(subs)
    /\ ChanHasRoom(subs[bi[h]])
    /\ mailbox' = [mailbox EXCEPT ![subs[bi[h]]] = Append(@, e[h])]
    /\ bi' = [bi EXCEPT ![h] = @ + 1]
    /\ UNCHANGED <<uiVars, extVars, jobs, nextID, jobMuW, jobMuR, subsMu, subs, hpc,
                   req, data, err, e, streamVars, started, exchange, lockCount,
                   ticket, recorded, osCalls, appended, dropped>>

\* appendJob: one iteration of for _, ch := range subs
BroadcastSend(h) ==
    /\ hpc[h] = "bc_send"
    /\ bi[h] <= Len(subs)
    /\ LET c == subs[bi[h]]
       IN IF ChanHasRoom(c)
          THEN /\ mailbox' = [mailbox EXCEPT ![c] = Append(@, e[h])]
               /\ UNCHANGED dropped
          ELSE /\ dropped' = [dropped EXCEPT ![c] = @ \cup {e[h].id}]
               /\ UNCHANGED mailbox
    /\ bi' = [bi EXCEPT ![h] = @ + 1]
    /\ UNCHANGED <<uiVars, extVars, jobs, nextID, jobMuW, jobMuR, subsMu, subs, hpc, req, data,
                   err, e, streamVars, started, exchange, lockCount, ticket,
                   recorded, osCalls, appended>>

\* appendJob: the loop is over; subsMu.Unlock()
BroadcastUnlock(h) ==
    /\ hpc[h] = "bc_send"
    /\ bi[h] > Len(subs)
    /\ subsMu' = 0
    /\ hpc' = [hpc EXCEPT ![h] = "respond"]
    /\ UNCHANGED <<uiVars, extVars, jobs, nextID, jobMuW, jobMuR, subs, mailbox, req, data, err,
                   e, bi, streamVars, started, exchange, historyVars>>

\* Mutant of TestPrintResponse: a fixed message instead of err.Error().
TestPrintResponse_FixedMessage(error) ==
    IF error # <<>>
    THEN HttpError(<<"print failed">>, StatusInternalServerError)
    ELSE HttpWrite(<<"{\"status\":\"queued\"}">>)

\* handleTestPrint, after appendJob: http.Error(w, err.Error(), 500), or
\* w.Write([]byte(`{"status":"queued"}`))
TestPrintResponse(error) ==
    IF error # <<>>
    THEN HttpError(error, StatusInternalServerError)
    ELSE HttpWrite(<<"{\"status\":\"queued\"}">>)

\* POST /print: 200 with an empty body, or an error status with the
\* backend's message
PrintResponse(error) ==
    IF error # <<>>
    THEN HttpError(error, StatusInternalServerError)
    ELSE HttpWrite(<<>>)

\* handleTestPrint: the response, and the handler returns
TestPrintRespond(h) ==
    /\ hpc[h] = "respond"
    /\ req[h].endpoint = "/testprint"
    /\ Return(h, req[h], TestPrintResponse(err[h]))
    /\ UNCHANGED <<uiVars, extVars, busVars, streamVars, started, lockCount, recorded,
                   dropped>>

\* POST /print: the response, and the handler returns
PrintRespond(h) ==
    /\ hpc[h] = "respond"
    /\ req[h].endpoint = "/print"
    /\ Return(h, req[h], PrintResponse(err[h]))
    /\ UNCHANGED <<uiVars, extVars, busVars, streamVars, started, lockCount, recorded,
                   dropped>>

(* ----------------------------- /log-stream ---------------------------- *)

\* handleLogStream: flusher, ok := w.(http.Flusher); !ok
StreamUnsupported(c) ==
    /\ spc[c] = "idle"
    /\ spc' = [spc EXCEPT ![c] = "closed"]
    /\ UNCHANGED <<uiVars, extVars, busVars, handlerVars, existing, written, ctxDone, started, exchange,
                   historyVars>>

\* handleLogStream: the headers are set; jobMu.RLock()
StreamRLock(c) ==
    /\ spc[c] = "idle"
    /\ JobMuRLockable
    /\ jobMuR' = jobMuR \cup {c}
    /\ spc' = [spc EXCEPT ![c] = "snap"]
    /\ UNCHANGED <<uiVars, extVars, jobs, nextID, jobMuW, subsMu, subs, mailbox, handlerVars,
                   existing, written, ctxDone, started, exchange, historyVars>>

\* handleLogStream: existing := make(...); copy(existing, jobs); jobMu.RUnlock()
StreamSnapshot(c) ==
    /\ spc[c] = "snap"
    /\ existing' = [existing EXCEPT ![c] = jobs]
    /\ jobMuR' = jobMuR \ {c}
    /\ spc' = [spc EXCEPT ![c] = "replay"]
    /\ UNCHANGED <<uiVars, extVars, jobs, nextID, jobMuW, subsMu, subs, mailbox, handlerVars,
                   written, ctxDone, started, exchange, historyVars>>

\* Mutant of StreamReplay: nothing is replayed.
StreamReplay_NoReplay(c) ==
    /\ spc[c] = "replay"
    /\ spc' = [spc EXCEPT ![c] = "subscribe"]
    /\ UNCHANGED <<uiVars, extVars, busVars, handlerVars, existing, written, ctxDone,
                   started, exchange, historyVars>>

\* handleLogStream: for _, e := range existing { writeSSE(w, flusher, e) }
StreamReplay(c) ==
    /\ spc[c] = "replay"
    /\ written' = [written EXCEPT ![c] = @ \o existing[c]]
    /\ spc' = [spc EXCEPT ![c] = "subscribe"]
    /\ UNCHANGED <<uiVars, extVars, busVars, handlerVars, existing, ctxDone, started, exchange,
                   historyVars>>

\* subscribe: ch := make(chan JobEvent, 8); subs = append(subs, ch), under subsMu
Subscribe(c) ==
    /\ spc[c] = "subscribe"
    /\ subsMu = 0
    /\ mailbox' = [mailbox EXCEPT ![c] = <<>>]
    /\ subs' = Append(subs, c)
    /\ spc' = [spc EXCEPT ![c] = "loop"]
    /\ UNCHANGED <<uiVars, extVars, jobs, nextID, jobMuW, jobMuR, subsMu, handlerVars, existing,
                   written, ctxDone, started, exchange, historyVars>>

\* handleLogStream: case e := <-ch: writeSSE(w, flusher, e)
StreamReceive(c) ==
    /\ spc[c] = "loop"
    /\ mailbox[c] # <<>>
    /\ written' = [written EXCEPT ![c] = Append(@, Head(mailbox[c]))]
    /\ mailbox' = [mailbox EXCEPT ![c] = Tail(@)]
    /\ UNCHANGED <<uiVars, extVars, jobs, nextID, jobMuW, jobMuR, subsMu, subs, handlerVars, spc,
                   existing, ctxDone, started, exchange, historyVars>>

\* the client disconnects or the server shuts down: the request context is
\* cancelled
Cancel(c) ==
    /\ spc[c] \notin {"idle", "closed"}
    /\ ~ctxDone[c]
    /\ ctxDone' = [ctxDone EXCEPT ![c] = TRUE]
    /\ UNCHANGED <<uiVars, extVars, busVars, handlerVars, spc, existing, written, started, exchange,
                   historyVars>>

\* handleLogStream: case <-r.Context().Done(): return
StreamDone(c) ==
    /\ spc[c] = "loop"
    /\ ctxDone[c]
    /\ spc' = [spc EXCEPT ![c] = "unsub"]
    /\ UNCHANGED <<uiVars, extVars, busVars, handlerVars, existing, written, ctxDone, started, exchange,
                   historyVars>>

\* Mutant of RemoveFirst: the channel stays in the list.
RemoveFirst_Keeps(s, c) == s

\* s with its first occurrence of c removed:
\* subs = append(subs[:i], subs[i+1:]...)
RemoveFirst(s, c) ==
    IF \E i \in 1 .. Len(s) : s[i] = c
    THEN LET i == CHOOSE k \in 1 .. Len(s) :
                      s[k] = c /\ \A j \in 1 .. k - 1 : s[j] # c
         IN SubSeq(s, 1, i - 1) \o SubSeq(s, i + 1, Len(s))
    ELSE s

\* defer unsubscribe(ch), under subsMu; the handler has returned
Unsubscribe(c) ==
    /\ spc[c] = "unsub"
    /\ subsMu = 0
    /\ subs' = RemoveFirst(subs, c)
    /\ spc' = [spc EXCEPT ![c] = "closed"]
    /\ UNCHANGED <<uiVars, extVars, jobs, nextID, jobMuW, jobMuR, subsMu, mailbox, handlerVars,
                   existing, written, ctxDone, started, exchange, historyVars>>

(* --------------------------- the bridge client ------------------------ *)

\* What fetch(BRIDGE_BASE + "/status") does: it resolves with a response, or
\* throws (no bridge, or the 2 s AbortSignal.timeout).
FetchOutcomes ==
    {[throws |-> TRUE, status |-> 0]}
        \cup {[throws |-> FALSE, status |-> s] : s \in {StatusOK, StatusInternalServerError}}

\* checkBridgeStatus: try { return res.ok } catch { return false }
CheckBridgeStatus(outcome) ==
    IF outcome.throws THEN "false"
    ELSE IF outcome.status \in 200 .. 299 THEN "true" ELSE "false"

\* startBridgeStatusPolling(onChange): let lastState = null; poll();
\* pollTimer = setInterval(poll, STATUS_POLL_INTERVAL_MS).  The interval
\* created by call p has id p; the module-level pollTimer is overwritten.
StartBridgeStatusPolling(p) ==
    /\ polls[p] = 0
    /\ lastState' = [lastState EXCEPT ![p] = "null"]
    /\ polls' = [polls EXCEPT ![p] = 1]
    /\ inflight' = [inflight EXCEPT ![p] = @ + 1]
    /\ intervals' = intervals \cup {p}
    /\ pollTimer' = p
    /\ UNCHANGED <<uiVars, busVars, handlerVars, streamVars, started, exchange,
                   historyVars, backendVars, adminVars, onChangeCalls, cleaned>>

\* the interval timer of call p fires: its poll() is called
TimerTick(p, bound) ==
    /\ p \in intervals
    /\ polls[p] < bound
    /\ polls' = [polls EXCEPT ![p] = @ + 1]
    /\ inflight' = [inflight EXCEPT ![p] = @ + 1]
    /\ UNCHANGED <<uiVars, busVars, handlerVars, streamVars, started, exchange,
                   historyVars, backendVars, adminVars, pollTimer, intervals,
                   lastState, onChangeCalls, cleaned>>

\* Mutant of PollResolves: onChange is called for every poll result.
PollResolves_NoCompare(p, outcome) ==
    /\ inflight[p] > 0
    /\ inflight' = [inflight EXCEPT ![p] = @ - 1]
    /\ lastState' = [lastState EXCEPT ![p] = CheckBridgeStatus(outcome)]
    /\ onChangeCalls' = [onChangeCalls EXCEPT
                             ![p] = Append(@, CheckBridgeStatus(outcome))]
    /\ UNCHANGED <<uiVars, busVars, handlerVars, streamVars, started, exchange,
                   historyVars, backendVars, adminVars, pollTimer, intervals,
                   polls, cleaned>>

\* poll() of call p, after its await: const connected = await
\* checkBridgeStatus(); if (connected !== lastState) { lastState = connected;
\* onChange(connected) }
PollResolves(p, outcome) ==
    /\ inflight[p] > 0
    /\ inflight' = [inflight EXCEPT ![p] = @ - 1]
    /\ LET connected == CheckBridgeStatus(outcome)
       IN IF connected # lastState[p]
          THEN /\ lastState' = [lastState EXCEPT ![p] = connected]
               /\ onChangeCalls' = [onChangeCalls EXCEPT ![p] = Append(@, connected)]
          ELSE UNCHANGED <<lastState, onChangeCalls>>
    /\ UNCHANGED <<uiVars, busVars, handlerVars, streamVars, started, exchange,
                   historyVars, backendVars, adminVars, pollTimer, intervals,
                   polls, cleaned>>

\* the cleanup function returned by call p: if (pollTimer !== null)
\* { clearInterval(pollTimer); pollTimer = null }
Cleanup(p) ==
    /\ polls[p] > 0
    /\ ~cleaned[p]
    /\ cleaned' = [cleaned EXCEPT ![p] = TRUE]
    /\ IF pollTimer # 0
       THEN /\ intervals' = intervals \ {pollTimer}
            /\ pollTimer' = 0
       ELSE UNCHANGED <<intervals, pollTimer>>
    /\ UNCHANGED <<uiVars, busVars, handlerVars, streamVars, started, exchange,
                   historyVars, backendVars, adminVars, lastState,
                   onChangeCalls, inflight, polls>>

(* ------------------------------ PrintPanel ---------------------------- *)

\* What the user types into the printer-name field: a sequence of tokens, a
\* word or a blank.
PrinterNames == UNION {[1 .. n -> {"Embosser", " "}] : n \in 0 .. MaxNameLen}

\* The BRF text PrintPanel is given, "" when nothing is translated.
BrfTexts == {"", "A", "AB"}

RECURSIVE TrimStart(_)
TrimStart(name) ==
    IF name # <<>> /\ Head(name) = " " THEN TrimStart(Tail(name)) ELSE name

RECURSIVE TrimEnd(_)
TrimEnd(name) ==
    IF name # <<>> /\ name[Len(name)] = " "
    THEN TrimEnd(SubSeq(name, 1, Len(name) - 1)) ELSE name

\* printerName.trim()
Trim(name) == TrimEnd(TrimStart(name))

\* btoa(unescape(encodeURIComponent(brf)))
Base64Encode(b) ==
    IF b = "A" THEN "QQ==" ELSE IF b = "AB" THEN "QUI=" ELSE ""

\* res.ok
ResOk(res) == res.status \in 200 .. 299

\* Mutant of PrintBrf: the status of the response is not looked at.
PrintBrf_IgnoresStatus(outcome) ==
    IF outcome.throws THEN [rejects |-> TRUE, message |-> <<"Failed to fetch">>]
    ELSE [rejects |-> FALSE, message |-> <<>>]

\* printBrf, after its fetch has settled: a thrown fetch rejects with that
\* error; if (!res.ok) { const body = await res.text().catch(() => '');
\* throw new Error(`Bridge returned ${res.status}: ${body}`) }
PrintBrf(outcome) ==
    IF outcome.throws THEN [rejects |-> TRUE, message |-> <<"Failed to fetch">>]
    ELSE IF ~ResOk(outcome)
    THEN [rejects |-> TRUE,
          message |-> <<"Bridge returned ", ToString(outcome.status), ": ",
                        IF outcome.textFails THEN "" ELSE outcome.body>>]
    ELSE [rejects |-> FALSE, message |-> <<>>]

\* onChange of the printer-name field: setPrinterName(e.target.value)
SetPrinterName(name) ==
    /\ panelPrinterName' = name
    /\ UNCHANGED <<serverVars, clientVars, brf, status, errorMsg, printCall,
                   lastFetch, hookVars, viewerVars, chunkVars, dumpVars>>

\* App renders PrintPanel with a new brf prop
SetBrf(b) ==
    /\ brf' = b
    /\ UNCHANGED <<serverVars, clientVars, panelPrinterName, status, errorMsg,
                   printCall, lastFetch, hookVars, viewerVars, chunkVars,
                   dumpVars>>

\* handlePrint, up to its await: the button is disabled while printing
HandlePrint ==
    /\ status # "printing"
    /\ IF Trim(panelPrinterName) = <<>>
       THEN /\ errorMsg' = <<"Please enter a printer name.">>
            /\ UNCHANGED <<status, printCall, lastFetch>>
       ELSE IF brf = ""
       THEN /\ errorMsg' = <<"No Braille content to print. Type something first.">>
            /\ UNCHANGED <<status, printCall, lastFetch>>
       ELSE /\ status' = "printing"
            /\ errorMsg' = <<>>
            /\ printCall' = [printer |-> Trim(panelPrinterName),
                             data |-> Base64Encode(brf)]
            /\ lastFetch' = NoFetch
    /\ UNCHANGED <<serverVars, clientVars, panelPrinterName, brf, hookVars,
                   viewerVars, chunkVars, dumpVars>>

\* handlePrint, after await printBrf(...): setStatus('success'), or in the
\* catch setStatus('error'); setErrorMsg(err.message)
PrintSettles(outcome) ==
    /\ printCall # NoPrintCall
    /\ LET result == PrintBrf(outcome)
       IN IF result.rejects
          THEN /\ status' = "error"
               /\ errorMsg' = result.message
          ELSE /\ status' = "success"
               /\ UNCHANGED errorMsg
    /\ printCall' = NoPrintCall
    /\ lastFetch' = outcome
    /\ UNCHANGED <<serverVars, clientVars, panelPrinterName, brf, hookVars,
                   viewerVars, chunkVars, dumpVars>>

(* --------------------------- splitIntoChunks --------------------------- *)

\* The texts handed to splitIntoChunks: letters and line breaks.
SplitTexts == UNION {[1 .. n -> {"a", "\n"}] : n \in 0 .. MaxTextLen}

\* text.slice(a, b) with 0 <= a: the characters at the indices a .. b - 1
\* (JavaScript indices start at 0), none when b <= a
Slice(t, a, b) ==
    IF b <= a THEN <<>>
    ELSE SubSeq(t, a + 1, IF b < Len(t) THEN b ELSE Len(t))

\* text.lastIndexOf(needle, from): the largest index at most from where
\* needle occurs in t, or -1
LastIndexOf(t, needle, from) ==
    LET last == IF from < Len(t) - Len(needle) THEN from ELSE Len(t) - Len(needle)
        found == {k \in 0 .. last :
                     \A j \in 1 .. Len(needle) : t[k + j] = needle[j]}
    IN IF found = {} THEN -1
       ELSE CHOOSE k \in found : \A l \in found : l <= k

\* Mutant of ChunkEnd: any line break of the text is taken, also one at or
\* before start.
ChunkEnd_AnyLineBreak(t, m, s) ==
    LET end == s + m
        paraBreak == LastIndexOf(t, <<"\n", "\n">>, end)
        lineBreak == LastIndexOf(t, <<"\n">>, end)
    IN IF paraBreak > s THEN paraBreak + 2
       ELSE IF lineBreak >= 0 THEN lineBreak + 1
       ELSE end

\* one iteration of the while loop, past the check end >= text.length: the
\* end of the chunk that begins at s
ChunkEnd(t, m, s) ==
    LET end == s + m
        paraBreak == LastIndexOf(t, <<"\n", "\n">>, end)
        lineBreak == LastIndexOf(t, <<"\n">>, end)
    IN IF paraBreak > s THEN paraBreak + 2
       ELSE IF lineBreak > s THEN lineBreak + 1
       ELSE end

RECURSIVE SplitFrom(_, _, _)
\* the while loop of splitIntoChunks from start = s
SplitFrom(t, m, s) ==
    IF s >= Len(t) THEN <<>>
    ELSE IF s + m >= Len(t) THEN <<Slice(t, s, Len(t))>>
    ELSE <<Slice(t, s, ChunkEnd(t, m, s))>> \o SplitFrom(t, m, ChunkEnd(t, m, s))

\* splitIntoChunks(text, maxSize)
SplitIntoChunks(t, m) == IF Len(t) <= m THEN <<t>> ELSE SplitFrom(t, m, 0)

\* splitIntoChunks is called: if (text.length <= maxSize) return [text];
\* const chunks = []; let start = 0
SplitCall(t, m) ==
    /\ splitPc \in {"idle", "done"}
    /\ text' = t
    /\ maxSize' = m
    /\ start' = 0
    /\ IF Len(t) <= m
       THEN /\ chunks' = <<t>>
            /\ splitPc' = "done"
       ELSE /\ chunks' = <<>>
            /\ splitPc' = "loop"
    /\ UNCHANGED <<serverVars, clientVars, panelVars, hookVars, viewerVars,
                   dumpVars>>

\* one pass of while (start < text.length): the last chunk and break, a
\* chunk up to the break chosen, or the end of the loop; then return chunks
SplitIterate ==
    /\ splitPc = "loop"
    /\ IF start >= Len(text)
       THEN /\ splitPc' = "done"
            /\ UNCHANGED <<start, chunks>>
       ELSE IF start + maxSize >= Len(text)
       THEN /\ chunks' = Append(chunks, Slice(text, start, Len(text)))
            /\ splitPc' = "done"
            /\ UNCHANGED start
       ELSE /\ chunks' = Append(chunks, Slice(text, start,
                                               ChunkEnd(text, maxSize, start)))
            /\ start' = ChunkEnd(text, maxSize, start)
            /\ UNCHANGED splitPc
    /\ UNCHANGED <<serverVars, clientVars, panelVars, hookVars, viewerVars,
                   dumpVars, text, maxSize>>

(* ---------------------- useBraille and its worker --------------------- *)

\* The texts and tables translate() is called with; liblouis has no table
\* "missing.ctb".
TranslateTexts == {<<>>, <<" ">>, <<"a">>, <<"b">>, <<"a", " ", "b">>}
TranslateTables == {"en-ueb-g2.ctb", "missing.ctb"}

\* liblouis.translateString(table, text): the Braille ASCII of the text, or
\* null when the table cannot be used
BrailleAscii(ch) == IF ch = "a" THEN "A" ELSE IF ch = "b" THEN "B" ELSE ch
TranslateString(table, t) ==
    IF table = "en-ueb-g2.ctb"
    THEN [null |-> FALSE, brf |-> [i \in 1 .. Len(t) |-> BrailleAscii(t[i])]]
    ELSE [null |-> TRUE, brf |-> <<>>]

\* the messages of the worker; call is not part of the message: it names
\* the translate() call the message answers (0 for READY)
WorkerMessage(type, call, result, error, percent) ==
    [type |-> type, call |-> call, result |-> result, error |-> error,
     percent |-> percent]

\* Math.round(((i + 1) / chunks.length) * 100), done counting from 1
Percent(done, total) == (200 * done + total) \div (2 * total)

RECURSIVE TranslateChunks(_, _, _, _, _)
\* the for loop over the chunks from chunk i on: a PROGRESS message per
\* chunk and the RESULT, or the ERROR of the first chunk that gives null
TranslateChunks(table, cs, i, results, call) ==
    IF i > Len(cs)
    THEN <<WorkerMessage("RESULT", call, results, <<>>, 0)>>
    ELSE LET part == TranslateString(table, cs[i])
         IN IF part.null
            THEN <<WorkerMessage("ERROR", call, <<>>,
                                 <<"translateString returned null on chunk">>, 0)>>
            ELSE <<WorkerMessage("PROGRESS", call, <<>>, <<>>,
                                 Percent(i, Len(cs)))>>
                     \o TranslateChunks(table, cs, i + 1, results \o part.brf, call)

\* the worker's message handler: what it posts for one message
WorkerReplies(msg) ==
    IF ~ready
    THEN <<WorkerMessage("ERROR", msg.call, <<>>,
                         <<"liblouis is not ready yet">>, 0)>>
    ELSE IF Trim(msg.text) = <<>>
    THEN <<WorkerMessage("RESULT", msg.call, <<>>, <<>>, 0)>>
    ELSE IF Len(msg.text) <= CHUNK_THRESHOLD
    THEN LET result == TranslateString(msg.table, msg.text)
         IN IF result.null
            THEN <<WorkerMessage("ERROR", msg.call, <<>>,
                                 <<"translateString returned null">>, 0)>>
            ELSE <<WorkerMessage("RESULT", msg.call, result.brf, <<>>, 0)>>
    ELSE TranslateChunks(msg.table, SplitIntoChunks(msg.text, CHUNK_MAX_SIZE),
                         1, <<>>, msg.call)

\* init(): liblouis is loaded; ready = true; postMessage({ type: 'READY' })
WorkerInit ==
    /\ ~ready
    /\ ready' = TRUE
    /\ responses' = Append(responses, WorkerMessage("READY", 0, <<>>, <<>>, 0))
    /\ UNCHANGED <<serverVars, clientVars, panelVars, hook, workerQueue,
                   translateCalls, shownFor, viewerVars, chunkVars, dumpVars>>

\* the worker's message handler runs for the oldest message
WorkerHandles ==
    /\ workerQueue # <<>>
    /\ responses' = responses \o WorkerReplies(Head(workerQueue))
    /\ workerQueue' = Tail(workerQueue)
    /\ UNCHANGED <<serverVars, clientVars, panelVars, hook, ready,
                   translateCalls, shownFor, viewerVars, chunkVars, dumpVars>>

\* translate(text, table): setIsLoading(true); setProgress(0);
\* setError(null); workerRef.current.postMessage({ type: 'TRANSLATE', ... })
Translate(t, table) ==
    /\ Len(translateCalls) < MaxTranslateCalls
    /\ hook' = [hook EXCEPT !.isLoading = TRUE, !.progress = 0, !.error = <<>>]
    /\ translateCalls' = Append(translateCalls, t)
    /\ workerQueue' = Append(workerQueue, [text |-> t, table |-> table,
                                           call |-> Len(translateCalls) + 1])
    /\ UNCHANGED <<serverVars, clientVars, panelVars, ready, responses, shownFor,
                   viewerVars, chunkVars, dumpVars>>

\* the hook's message listener runs for the oldest message of the worker
HookReceives ==
    /\ responses # <<>>
    /\ responses' = Tail(responses)
    /\ LET msg == Head(responses)
       IN /\ hook' =
                 IF msg.type = "READY"
                 THEN [hook EXCEPT !.workerReady = TRUE, !.isLoading = FALSE]
                 ELSE IF msg.type = "PROGRESS"
                 THEN [hook EXCEPT !.progress = msg.percent]
                 ELSE IF msg.type = "RESULT"
                 THEN [hook EXCEPT !.translatedText = msg.result,
                                   !.progress = 100, !.isLoading = FALSE,
                                   !.error = <<>>]
                 ELSE [hook EXCEPT !.error = msg.error, !.isLoading = FALSE]
          /\ shownFor' = IF msg.type = "RESULT" THEN msg.call ELSE shownFor
    /\ UNCHANGED <<serverVars, clientVars, panelVars, ready, workerQueue,
                   translateCalls, viewerVars, chunkVars, dumpVars>>

(* ----------------------------- PerkinsViewer -------------------------- *)

\* The rawText prop: letters, blanks and line breaks.
RawTexts == UNION {[1 .. n -> {"a", " ", "\n", "\r"}] : n \in 0 .. MaxRawLen}

\* rawText.replace(/[\r\n]+/g, '').split('')
IsNoLineBreak(ch) == ch \notin {"\r", "\n"}
Characters(raw) == SelectSeq(raw, IsNoLineBreak)

\* the component is mounted: its last render did not throw
Mounted == ~render.threw

\* the parent renders PerkinsViewer with a new rawText
SetRawText(raw) ==
    /\ Mounted
    /\ ~needsRender
    /\ rawText' = raw
    /\ needsRender' = TRUE
    /\ UNCHANGED <<serverVars, clientVars, panelVars, hookVars, currentIndex,
                   render, chunkVars, dumpVars>>

\* prevChar: if (currentIndex > 0) setCurrentIndex(currentIndex - 1); the
\* buttons exist when the last render had content
PrevChar ==
    /\ Mounted
    /\ ~needsRender
    /\ render.reads
    /\ currentIndex > 0
    /\ currentIndex' = currentIndex - 1
    /\ needsRender' = TRUE
    /\ UNCHANGED <<serverVars, clientVars, panelVars, hookVars, rawText, render,
                   chunkVars, dumpVars>>

\* nextChar: if (currentIndex < characters.length - 1)
\* setCurrentIndex(currentIndex + 1)
NextChar ==
    /\ Mounted
    /\ ~needsRender
    /\ render.reads
    /\ currentIndex < Len(Characters(rawText)) - 1
    /\ currentIndex' = currentIndex + 1
    /\ needsRender' = TRUE
    /\ UNCHANGED <<serverVars, clientVars, panelVars, hookVars, rawText, render,
                   chunkVars, dumpVars>>

\* one render: the bounds check schedules setCurrentIndex(length - 1) for
\* the next render; this render reads characters[currentIndex] with the
\* index it was called with and hands it to getStaticDots, whose
\* char.toLowerCase() throws for undefined
Render ==
    /\ Mounted
    /\ needsRender
    /\ LET characters == Characters(rawText)
           hasContent == Len(characters) > 0
           outside == hasContent /\ currentIndex >= Len(characters)
       IN /\ currentIndex' = IF outside THEN Len(characters) - 1 ELSE currentIndex
          /\ render' = [length |-> Len(characters), index |-> currentIndex,
                        reads |-> hasContent, threw |-> outside]
          /\ needsRender' = FALSE
    /\ UNCHANGED <<serverVars, clientVars, panelVars, hookVars, rawText,
                   chunkVars, dumpVars>>

(* -------------------------------- hexDump ----------------------------- *)

\* The data handed to hexDump: n bytes, alternately b1 and b2, of a line
\* feed, the letter A, the tilde and DEL.
DumpBytes == {10, 65, 126, 127}
DumpInputs ==
    {[k \in 1 .. n |-> IF k % 2 = 1 THEN b1 ELSE b2] :
         n \in 0 .. MaxDumpLen, b1 \in DumpBytes, b2 \in {10, 65}}

\* one lower-case hexadecimal digit
HexDigit(d) ==
    <<"0", "1", "2", "3", "4", "5", "6", "7", "8", "9", "a", "b", "c", "d", "e",
      "f">>[d + 1]

\* fmt.Sprintf("%04x", i) and fmt.Sprintf("%02x", b), for i < 65536, b < 256
Hex4(i) ==
    <<HexDigit((i \div 4096) % 16), HexDigit((i \div 256) % 16),
      HexDigit((i \div 16) % 16), HexDigit(i % 16)>>
Hex2(b) == <<HexDigit((b \div 16) % 16), HexDigit(b % 16)>>

\* strings.Repeat(" ", n)
Spaces(n) == [k \in 1 .. n |-> " "]

\* the character of a printable byte of the inputs
Chr(b) == IF b = 65 THEN "A" ELSE IF b = 126 THEN "~" ELSE " "

RECURSIVE HexBytes(_, _)
\* for j, b := range row: "%02x " and one more blank after j == 7; j counts
\* from 1 here
HexBytes(row, j) ==
    IF j > Len(row) THEN <<>>
    ELSE Hex2(row[j]) \o <<" ">> \o (IF j - 1 = 7 THEN <<" ">> ELSE <<>>)
             \o HexBytes(row, j + 1)

\* Pad short rows
RowPad(row) ==
    IF Len(row) < RowBytes
    THEN Spaces((RowBytes - Len(row)) * 3 + (IF Len(row) <= 8 THEN 1 ELSE 0))
    ELSE <<>>

\* the ASCII column: the byte itself when printable, else a dot
RowAscii(row) ==
    [k \in 1 .. Len(row) |->
        IF row[k] >= 32 /\ row[k] < 127 THEN Chr(row[k]) ELSE "."]

\* one row of the dump: the bytes row, which begin at offset i
HexRow(i, row) ==
    Hex4(i) \o <<" ", " ">> \o HexBytes(row, 1) \o RowPad(row) \o <<" ", "|">>
        \o RowAscii(row) \o <<"|", "\n">>

RECURSIVE HexRows(_, _)
\* for i := 0; i < len(data); i += 16
HexRows(d, i) ==
    IF i >= Len(d) THEN <<>>
    ELSE LET end == IF i + RowBytes > Len(d) THEN Len(d) ELSE i + RowBytes
         IN <<HexRow(i, SubSeq(d, i + 1, end))>> \o HexRows(d, i + RowBytes)

\* hexDump(data): the rows written, in order
HexDump(d) ==
    HexRows(IF Len(d) > DumpLimit THEN SubSeq(d, 1, DumpLimit) ELSE d, 0)

\* hexDump is called
HexDumpCall(d) ==
    /\ dumpData = <<>>
    /\ dumpData' = d
    /\ dumpOut' = HexDump(d)
    /\ UNCHANGED <<serverVars, clientVars, panelVars, hookVars, viewerVars,
                   chunkVars>>

(* --------------------------- specifications --------------------------- *)

\* appendJob, from jobMu.Lock() to the handler's response
AppendJobStep(h) ==
    \/ AppendJobLock(h)
    \/ AppendJobAssign(h)
    \/ AppendJobIncrement(h)
    \/ AppendJobAppend(h)
    \/ AppendJobUnlock(h)
    \/ BroadcastLock(h)
    \/ BroadcastUnlock(h)
    \/ TestPrintRespond(h)

StreamStep(c) ==
    \/ StreamUnsupported(c)
    \/ StreamRLock(c)
    \/ StreamSnapshot(c)
    \/ StreamReplay(c)
    \/ Subscribe(c)
    \/ StreamReceive(c)
    \/ Cancel(c)
    \/ StreamDone(c)
    \/ Unsubscribe(c)

\* Spec: print handlers and /log-stream connections together.  Every request
\* is a well-formed /testprint and the print command succeeds or fails.
Next ==
    \/ \E h \in Handlers :
          \/ TestPrintAccept(h, ValidTestPrint, MaxRequests)
          \/ \E o \in {"ok", "lp"} : Dispatch(h, o)
          \/ AppendJobStep(h)
          \/ BroadcastSend(h)
    \/ \E c \in Conns : StreamStep(c)

Spec == Init /\ [][Next]_vars

\* SpecJobs: the print handlers alone, concurrently (no /log-stream
\* connection, so subs stays empty and appendJob's loop has no iteration).
NextJobs ==
    \E h \in Handlers :
        \/ TestPrintAccept(h, ValidTestPrint, MaxRequests)
        \/ \E o \in {"ok", "lp"} : Dispatch(h, o)
        \/ AppendJobStep(h)

SpecJobs == Init /\ [][NextJobs]_vars

\* SpecHttp: one handler goroutine serving /testprint requests one after
\* another, over every request and every outcome of the print call.
NextHttp ==
    \/ \E r \in TestPrintRequests :
          \/ TestPrintMethodNotAllowed(1, r)
          \/ TestPrintBadRequest(1, r)
          \/ TestPrintAccept(1, r, MaxHttpRequests)
    \/ \E o \in OsOutcomes : Dispatch(1, o)
    \/ AppendJobStep(1)

SpecHttp == Init /\ [][NextHttp]_vars

\* SpecPrint: as SpecHttp, with POST /print requests as well.
NextPrint ==
    \/ \E r \in TestPrintRequests :
          \/ TestPrintMethodNotAllowed(1, r)
          \/ TestPrintBadRequest(1, r)
          \/ TestPrintAccept(1, r, MaxHttpRequests)
    \/ \E r \in PrintRequests :
          \/ PrintBadRequest(1, r)
          \/ PrintAccept(1, r, MaxHttpRequests)
    \/ \E o \in OsOutcomes : Dispatch(1, o)
    \/ AppendJobStep(1)
    \/ PrintRespond(1)

SpecPrint == Init /\ [][NextPrint]_vars

\* SpecRing: one handler goroutine serving successful test prints one after
\* another, enough of them to fill the ring and evict.
NextRing ==
    \/ TestPrintAccept(1, ValidTestPrint, MaxRingJobs)
    \/ Dispatch(1, "ok")
    \/ AppendJobStep(1)

SpecRing == Init /\ [][NextRing]_vars

\* SpecBackend: concurrent /testprint handlers with sendToPrinter taken
\* statement by statement, the operating system failing any step.
NextBackend ==
    \E h \in Handlers :
        \/ TestPrintAccept(h, ValidTestPrint, MaxBackendJobs)
        \/ SendStep(h)
        \/ AppendJobStep(h)

SpecBackend == Init /\ [][NextBackend]_vars

\* A print handler is inside appendJob.
InAppendJob(h) ==
    hpc[h] \in {"aj_id", "aj_inc", "aj_append", "aj_trim", "bc_lock", "bc_send"}

\* A /log-stream handler is between its snapshot and its subscribe().
Connecting(c) == spc[c] \in {"snap", "replay", "subscribe"}

\* SpecBus: one handler goroutine printing test pages one after another and
\* two /log-stream connections that come and read or stall.  A client
\* connects while no appendJob call is in progress: the handler enters
\* appendJob only when no connection is between snapshot and subscribe(), and
\* a connection takes its snapshot only when the handler is outside appendJob.
NextBus ==
    \/ TestPrintAccept(1, ValidTestPrint, MaxBusJobs)
    \/ Dispatch(1, "ok")
    \/ (\A c \in Streams : ~Connecting(c)) /\ AppendJobLock(1)
    \/ AppendJobAssign(1)
    \/ AppendJobIncrement(1)
    \/ AppendJobAppend(1)
    \/ AppendJobUnlock(1)
    \/ BroadcastLock(1)
    \/ BroadcastSend(1)
    \/ BroadcastUnlock(1)
    \/ TestPrintRespond(1)
    \/ \E c \in Streams :
          \/ ~InAppendJob(1) /\ StreamRLock(c)
          \/ StreamSnapshot(c)
          \/ StreamReplay(c)
          \/ Subscribe(c)
          \/ StreamReceive(c)

SpecBus == Init /\ [][NextBus]_vars

\* SpecStall: one handler goroutine printing test pages one after another and
\* one /log-stream connection whose client may stop reading at any time.  The
\* scheduler is fair to the goroutines that can run: the handler inside
\* appendJob, and the stream handler holding the read lock of jobMu.  Nothing
\* makes the client read.
NextStall ==
    \/ TestPrintAccept(1, ValidTestPrint, MaxBusJobs)
    \/ Dispatch(1, "ok")
    \/ AppendJobStep(1)
    \/ BroadcastSend(1)
    \/ StreamRLock(1)
    \/ StreamSnapshot(1)
    \/ StreamReplay(1)
    \/ Subscribe(1)
    \/ StreamReceive(1)

SpecStall ==
    /\ Init
    /\ [][NextStall]_vars
    /\ WF_vars(AppendJobStep(1) \/ BroadcastSend(1))
    /\ WF_vars(StreamSnapshot(1))

\* What a /log-stream handler does by itself once it has been started.
StreamRuns(c) ==
    \/ StreamSnapshot(c)
    \/ StreamReplay(c)
    \/ Subscribe(c)
    \/ StreamDone(c)
    \/ Unsubscribe(c)

\* SpecCancel: one handler goroutine printing test pages and two /log-stream
\* connections whose clients read, stall and disconnect at any time.  The
\* scheduler is fair to the goroutines that can run; select takes a ready
\* case, so a handler whose context is done is not kept in its loop for ever.
NextCancel ==
    \/ TestPrintAccept(1, ValidTestPrint, MaxCancelJobs)
    \/ Dispatch(1, "ok")
    \/ AppendJobStep(1)
    \/ BroadcastSend(1)
    \/ \E c \in Streams :
          \/ StreamUnsupported(c)
          \/ StreamRLock(c)
          \/ StreamRuns(c)
          \/ StreamReceive(c)
          \/ Cancel(c)

SpecCancel ==
    /\ Init
    /\ [][NextCancel]_vars
    /\ WF_vars(AppendJobStep(1) \/ BroadcastSend(1))
    /\ \A c \in Streams : WF_vars(StreamRuns(c))

\* SpecPrinters: GET /printers requests one after another, over what the two
\* lpstat commands can do.
NextPrinters ==
    \E a \in LpstatResults : \E b \in LpstatResults :
        HandlePrinters(a, b, MaxPrintersCalls)

SpecPrinters == Init /\ [][NextPrinters]_vars

\* SpecStatus: GET /status requests in between the steps of a print handler
\* and of a /log-stream connection.
NextStatus ==
    \/ TestPrintAccept(1, ValidTestPrint, MaxHttpRequests)
    \/ \E o \in {"ok", "lp"} : Dispatch(1, o)
    \/ AppendJobStep(1)
    \/ BroadcastSend(1)
    \/ StreamStep(1)
    \/ HandleStatus(MaxStatusCalls)

SpecStatus == Init /\ [][NextStatus]_vars

\* SpecClient: one startBridgeStatusPolling call, its timer, and what the
\* /status fetches do.
NextClient ==
    \/ StartBridgeStatusPolling(1)
    \/ TimerTick(1, MaxPolls)
    \/ \E outcome \in FetchOutcomes : PollResolves(1, outcome)
    \/ Cleanup(1)

SpecClient == Init /\ [][NextClient]_vars

\* SpecPollers: several startBridgeStatusPolling calls on one page, each with
\* its own onChange and cleanup function, sharing the module-level pollTimer.
NextPollers ==
    \E p \in Pollers :
        \/ StartBridgeStatusPolling(p)
        \/ TimerTick(p, MaxPollerPolls)
        \/ \E outcome \in FetchOutcomes : PollResolves(p, outcome)
        \/ Cleanup(p)

SpecPollers == Init /\ [][NextPollers]_vars

\* SpecPanel: the user types printer names and clicks Print; the translation
\* changes; each /print fetch settles in any way.
NextPanel ==
    \/ \E name \in PrinterNames : SetPrinterName(name)
    \/ \E b \in BrfTexts : SetBrf(b)
    \/ HandlePrint
    \/ \E outcome \in PrintFetchOutcomes : PrintSettles(outcome)

SpecPanel == Init /\ [][NextPanel]_vars

\* SpecHook: the page calls translate() while the worker starts, translates
\* and answers; messages are delivered in the order they were posted.
NextHook ==
    \/ WorkerInit
    \/ \E t \in TranslateTexts : \E table \in TranslateTables : Translate(t, table)
    \/ WorkerHandles
    \/ HookReceives

SpecHook == Init /\ [][NextHook]_vars

\* SpecViewer: PerkinsViewer is rendered, the user clicks Previous and Next,
\* and the text changes.
NextViewer ==
    \/ \E raw \in RawTexts : SetRawText(raw)
    \/ PrevChar
    \/ NextChar
    \/ Render

SpecViewer == Init /\ [][NextViewer]_vars

\* SpecDump: hexDump is called once, with any of the inputs.
NextDump == \E d \in DumpInputs : HexDumpCall(d)

SpecDump == Init /\ [][NextDump]_vars

\* SpecSplit: splitIntoChunks is called with every text and maxSize >= 1 of
\* the bounds, one call after the other; a call that has begun runs on.
NextSplit ==
    \/ \E t \in SplitTexts : \E m \in 1 .. MaxChunkSize : SplitCall(t, m)
    \/ SplitIterate

SpecSplit == Init /\ [][NextSplit]_vars /\ WF_vars(SplitIterate)

(* ------------------------------- claims ------------------------------- *)

\* The handler has passed e.ID = nextID of its appendJob call.
HasId(h) ==
    hpc[h] \in {"aj_inc", "aj_append", "aj_trim", "bc_lock", "bc_send", "respond"}

\* C1: for every interleaving of concurrent appendJob calls the ids are
\* 1, 2, 3, ... with no repeat and no gap, in the order the calls acquire
\* jobMu: the k-th call to take the lock holds id k, the k-th append stores
\* id k, and an event recorded before another has the smaller id.
C1_IdsFollowLockOrder ==
    /\ \A h \in Handlers : HasId(h) => e[h].id = ticket[h]
    /\ \A i \in 1 .. Len(recorded) : recorded[i].id = i
    /\ \A i \in 1 .. Len(jobs) - 1 : jobs[i].id < jobs[i + 1].id
    /\ \A g, h \in Handlers : g # h /\ HasId(g) /\ HasId(h) => e[g].id # e[h].id

\* C1 witness: two appendJob calls in progress at once, past their id
\* assignment, with consecutive ids.
C1_Witness ==
    \E g, h \in Handlers :
        /\ g # h
        /\ hpc[g] = "bc_lock"
        /\ hpc[h] = "aj_inc"
        /\ e[h].id = e[g].id + 1

\* The id the ring starts at after n recorded events: max(1, n - 199).
RingFirstId(n) == IF n - (RingCap - 1) > 1 THEN n - (RingCap - 1) ELSE 1

\* C5: once appendJob has released jobMu the history holds at most 200
\* events, and after n recorded events exactly those with ids
\* max(1, n-199) .. n, in increasing id order (FIFO eviction).
C5_RingBoundedFifo ==
    jobMuW = 0 =>
        LET n == Len(recorded)
        IN /\ Len(jobs) <= RingCap
           /\ Len(jobs) = n - RingFirstId(n) + 1
           /\ \A i \in 1 .. Len(jobs) : jobs[i].id = RingFirstId(n) + i - 1

\* C5 witness: more than 200 events were recorded, the lock is free, and the
\* ring holds exactly 200, the oldest evicted.
C5_Witness ==
    /\ jobMuW = 0
    /\ Len(recorded) > RingCap
    /\ Len(jobs) = RingCap
    /\ jobs[1].id = Len(recorded) - RingCap + 1

(* ------------------- claims on /log-stream delivery ------------------- *)

Ids(s) == {s[i].id : i \in 1 .. Len(s)}

\* The last id of a replay snapshot; 0 for an empty one.
LastId(s) == IF s = <<>> THEN 0 ELSE s[Len(s)].id

StrictlyIncreasing(s) == \A i \in 1 .. Len(s) - 1 : s[i].id < s[i + 1].id

\* The handler has written its replay.
Replayed(c) == spc[c] \in {"subscribe", "loop", "unsub", "closed"}

\* The events of a connection that came through its channel, in the order
\* they were sent: those written after the replay, then those still buffered.
Live(c) ==
    SubSeq(written[c], Len(existing[c]) + 1, Len(written[c])) \o mailbox[c]

\* The connection has taken its snapshot and is neither cancelled nor ended.
Open(c) == spc[c] \in {"replay", "subscribe", "loop"} /\ ~ctxDone[c]

\* C2: a /log-stream connection receives the full current ring, in ring
\* order, before any live event, and no id is ever written twice to it.
C2_ReplayThenLiveNoDuplicate ==
    \A c \in Conns :
        /\ Replayed(c) => SubSeq(written[c], 1, Len(existing[c])) = existing[c]
        /\ \A i, j \in 1 .. Len(written[c]) :
               i # j => written[c][i].id # written[c][j].id

\* C3: a connection sees no gap: with no print handler at work and its
\* mailbox drained, an open connection has written every event recorded
\* after its snapshot, except those dropped at its full mailbox.
C3_NoGapAfterSnapshot ==
    \A c \in Conns :
        (/\ spc[c] = "loop"
         /\ ~ctxDone[c]
         /\ mailbox[c] = <<>>
         /\ \A h \in Handlers : hpc[h] = "idle")
        => \A i \in 1 .. Len(recorded) :
               recorded[i].id > LastId(existing[c])
               => recorded[i].id \in Ids(written[c]) \cup dropped[c]

\* C4: events are broadcast in the order of their ids, so what reaches a
\* connection through its channel is in strictly increasing id order.
C4_BroadcastInIdOrder ==
    \A c \in Conns : Replayed(c) => StrictlyIncreasing(Live(c))

\* C6: every /testprint call that reached the print backend has, when it is
\* answered, appended exactly one JobEvent, and that event has reached every
\* open /log-stream connection: in its replay, through its channel, or
\* dropped at its full mailbox.
C6_OneEventToEveryOpenConnection ==
    exchange.osCalls > 0 =>
        /\ exchange.appended = 1
        /\ \A c \in Conns :
               Open(c) =>
                   exchange.event.id \in
                       Ids(existing[c]) \cup Ids(written[c]) \cup Ids(mailbox[c])
                           \cup dropped[c]

(* --------------------- claims on the print handlers ------------------- *)

Is2xx(code) == code \in 200 .. 299

\* The entry of recorded behind the i-th event of the ring.
RecordOf(i) == recorded[Len(recorded) - Len(jobs) + i]

\* C7: the error field of every JobEvent in the history is non-empty if and
\* only if the sendToPrinter call of that attempt returned an error, and
\* /testprint answers 200 {"status":"queued"} exactly when the event it
\* recorded has an empty error.
C7_ErrorIffPrintFailed ==
    /\ \A i \in 1 .. Len(jobs) :
           (jobs[i].err # <<>>) <=> (RecordOf(i).returned # <<>>)
    /\ exchange.appended > 0 =>
           ((exchange.resp = HttpWrite(<<"{\"status\":\"queued\"}">>))
                <=> (exchange.event.err = <<>>))

\* C7 witness: a failed attempt and then a successful one are in the history,
\* and the successful one was answered 200.
C7_Witness ==
    /\ Len(jobs) = 2
    /\ jobs[1].err # <<>>
    /\ jobs[2].err = <<>>
    /\ exchange.event = jobs[2]
    /\ exchange.resp.status = StatusOK

\* C8: when sendToPrinter fails, its one error message is the body of the
\* non-2xx response (http.Error ends it with a newline) and the error field
\* of the JobEvent stored in the history; no failure is swallowed.
C8_FailureReported ==
    exchange.err # <<>> =>
        /\ ~Is2xx(exchange.resp.status)
        /\ exchange.resp.body = Append(exchange.err, "\n")
        /\ exchange.event.err = exchange.err
        /\ \E i \in 1 .. Len(jobs) : jobs[i] = exchange.event

\* C8 witness: an attempt whose lp command failed has been answered.
C8_Witness ==
    /\ exchange.err # <<>>
    /\ exchange.err[1] = "lp command failed: "
    /\ exchange.resp.status = StatusInternalServerError

\* C9: a malformed /testprint request (a body that does not parse, or an
\* empty printer name) is answered with a non-2xx status, and sendToPrinter
\* is never invoked for it.
C9_MalformedRejectedBeforeBackend ==
    (/\ exchange.req.endpoint = "/testprint"
     /\ ~exchange.req.parses \/ exchange.req.printer = "")
    => /\ ~Is2xx(exchange.resp.status)
       /\ exchange.osCalls = 0
       /\ exchange.appended = 0
       /\ exchange.event = NoEvent

\* C9 witness: after a print attempt, a POST whose body parses and names no
\* printer has been answered 400.
C9_Witness ==
    /\ Len(jobs) = 1
    /\ exchange.req.endpoint = "/testprint"
    /\ exchange.req.method = "POST"
    /\ exchange.req.parses
    /\ exchange.req.printer = ""
    /\ exchange.resp.status = StatusBadRequest

C11_BytesIsHandedLength ==
    /\ \A i \in 1 .. Len(jobs) : jobs[i].bytes = Len(RecordOf(i).handed)
    /\ (exchange.req.endpoint = "/testprint" /\ exchange.appended > 0)
       => /\ exchange.event.bytes = Len(testBRF)
          /\ \E i \in 1 .. Len(jobs) : jobs[i] = exchange.event

\* C11 witness: two test prints, one failed and one printed, are in the
\* history with the same non-zero byte count.
C11_Witness ==
    /\ Len(jobs) = 2
    /\ jobs[1].err # <<>>
    /\ jobs[2].err = <<>>
    /\ jobs[1].bytes = Len(testBRF)
    /\ jobs[2].bytes = jobs[1].bytes
    /\ exchange.event = jobs[2]

(* ------------------- claims on the print backend ---------------------- *)

\* The handler is inside its sendToPrinter call, past os.CreateTemp.
InSendToPrinter(h) == hpc[h] \in {"st_write", "st_close", "st_lp", "st_defer"}

\* The handler has called sendToPrinter for its request.
Dispatched(h) ==
    InSendToPrinter(h) \/ hpc[h] \in {"aj_lock", "aj_id", "aj_inc", "aj_append",
                                      "aj_trim", "bc_lock", "bc_send", "respond"}

\* C12, in every state: a validated request has called sendToPrinter exactly
\* once and that call has spawned lp at most once; an answered attempt made
\* one call, and a failed one is reported to the caller and stored in the
\* history with its error.
C12_OneAttempt ==
    /\ \A h \in Handlers :
           Dispatched(h) => osCalls[h] = 1 /\ lpRuns[h] <= 1
    /\ exchange.appended > 0 => exchange.osCalls = 1 /\ exchange.appended = 1
    /\ exchange.err # <<>> =>
           /\ ~Is2xx(exchange.resp.status)
           /\ exchange.event.err = exchange.err
           /\ \E i \in 1 .. Len(jobs) : jobs[i] = exchange.event

\* C12, in every step: a failed attempt stays failed (its error is kept until
\* the handler returns, and it never goes back into sendToPrinter), and an
\* event of the history is never rewritten.
C12_FailedIsTerminal ==
    /\ \A h \in Handlers :
           err[h] # <<>> =>
               /\ err'[h] = err[h] \/ hpc'[h] = "idle"
               /\ hpc'[h] \notin {"send", "st_write", "st_close", "st_lp"}
    /\ \A i \in 1 .. Len(jobs) : \A j \in 1 .. Len(jobs') :
           jobs'[j].id = jobs[i].id => jobs'[j] = jobs[i]

\* C12: there are no automatic retries: each validated request invokes
\* sendToPrinter exactly once and sendToPrinter spawns the lp command at most
\* once; a failed attempt stays failed and is reported to the caller and to
\* the job history.
C12_NoAutomaticRetry == []C12_OneAttempt /\ [][C12_FailedIsTerminal]_vars

\* C12 witness: an attempt whose one lp command failed has been answered 500
\* and is the last event of the history.
C12_Witness ==
    /\ \A h \in Handlers : hpc[h] = "idle"
    /\ \E h \in Handlers : lpRuns[h] = 1
    /\ exchange.err # <<>>
    /\ exchange.err[1] = "lp command failed: "
    /\ exchange.osCalls = 1
    /\ jobs # <<>>
    /\ jobs[Len(jobs)] = exchange.event

\* C18: every temporary file that exists belongs to exactly one sendToPrinter
\* call still in progress: a call that has returned, on any exit path, has
\* left no file, and two calls in progress never have the same file.
C18_TempFileRemovedAndUnique ==
    /\ files = {tmp[h] : h \in {g \in Handlers : InSendToPrinter(g)}}
    /\ \A h \in Handlers : ~InSendToPrinter(h) => tmp[h] = 0
    /\ \A g, h \in Handlers :
           (g # h /\ InSendToPrinter(g) /\ InSendToPrinter(h)) => tmp[g] # tmp[h]

\* C18 witness: one call has returned after its lp command failed, and the
\* only temporary file left is the one of another call still in progress.
C18_Witness ==
    \E g, h \in Handlers :
        /\ g # h
        /\ hpc[g] = "aj_lock"
        /\ err[g] # <<>>
        /\ err[g][1] = "lp command failed: "
        /\ hpc[h] = "st_lp"
        /\ files = {tmp[h]}

(* ---------------------- claims on the mailboxes ----------------------- *)

\* C14, in every state: a mailbox holds at most 8 events; an event dropped at
\* a mailbox is in the history; no event is both dropped at and delivered to
\* a mailbox, or delivered to it twice; and each subscriber the broadcast loop
\* has passed has the event in its channel or had it dropped.
C14_MailboxState ==
    /\ \A c \in Streams :
           /\ Len(mailbox[c]) <= MailboxCap
           /\ dropped[c] \subseteq Ids(jobs)
           /\ dropped[c] \cap Ids(Live(c)) = {}
           /\ \A i, j \in 1 .. Len(Live(c)) :
                  i # j => Live(c)[i].id # Live(c)[j].id
    /\ \A h \in Handlers :
           hpc[h] = "bc_send" =>
               /\ e[h] \in {jobs[i] : i \in 1 .. Len(jobs)}
               /\ \A k \in 1 .. bi[h] - 1 :
                      e[h].id \in Ids(Live(subs[k])) \cup dropped[subs[k]]

\* C14, in every step: an event is dropped at a mailbox only when that mailbox
\* holds 8 events, and the drop changes no mailbox.
C14_DropOnlyWhenFull ==
    \A c \in Streams :
        dropped'[c] # dropped[c] =>
            /\ Len(mailbox[c]) = MailboxCap
            /\ mailbox' = mailbox

\* C14: a subscriber mailbox never holds more than 8 events; an event that
\* meets a full mailbox is dropped for that subscriber only, stays in the
\* history and reaches every other registered subscriber whose mailbox has
\* room, exactly once.
C14_DropIsLocal == []C14_MailboxState /\ [][C14_DropOnlyWhenFull]_vars

\* C14 witness: the broadcast loop is over; the event was dropped at the first
\* subscriber, whose mailbox is full, and is in the second one's mailbox.
C14_Witness ==
    \E c, d \in Streams :
        /\ subs = <<c, d>>
        /\ hpc[1] = "bc_send"
        /\ bi[1] > Len(subs)
        /\ Len(mailbox[c]) = MailboxCap
        /\ e[1].id \in dropped[c]
        /\ e[1].id \in Ids(mailbox[d])

(* -------------------- claims on a quiet connect ----------------------- *)

\* The ids recorded after the snapshot of connection c.
LaterIds(c) ==
    {recorded[i].id : i \in {j \in 1 .. Len(recorded) :
                                 recorded[j].id > LastId(existing[c])}}

\* What C16 says in every reading: the replay is the k retained events, ids
\* 1 .. k in order, written first, and no event is written twice.
ReplayIsRetained(c) ==
    /\ Len(written[c]) >= Len(existing[c])
    /\ SubSeq(written[c], 1, Len(existing[c])) = existing[c]
    /\ \A i \in 1 .. Len(existing[c]) : existing[c][i].id = i
    /\ \A i, j \in 1 .. Len(written[c]) :
           i # j => written[c][i].id # written[c][j].id

C13_AppendJobTerminates ==
    /\ [](\A h \in Handlers : hpc[h] \in {"bc_lock", "bc_send"} => jobMuW # h)
    /\ \A h \in Handlers :
           (hpc[h] = "aj_lock")
               ~> (/\ hpc[h] = "respond"
                   /\ \E i \in 1 .. Len(jobs) : jobs[i] = e[h])

\* C13 witness: appendJob has returned although the subscriber's mailbox was
\* full and stayed full: the event is stored, and was dropped for it.
C13_Witness ==
    /\ hpc[1] = "respond"
    /\ spc[1] = "loop"
    /\ Len(mailbox[1]) = MailboxCap
    /\ e[1].id \in dropped[1]
    /\ \E i \in 1 .. Len(jobs) : jobs[i] = e[1]

\* The /log-stream handlers that have subscribed and not yet returned.
Subscribed == {c \in AllConns : spc[c] \in {"loop", "unsub"}}

\* C15, in every state: the registered mailboxes are those of handlers that
\* have subscribed and not yet returned, one each, and with no such handler
\* the subscriber list is empty.
C15_NoLeakedMailbox ==
    /\ Len(subs) <= Cardinality(Subscribed)
    /\ \A i \in 1 .. Len(subs) : subs[i] \in Subscribed
    /\ \A i, j \in 1 .. Len(subs) : i # j => subs[i] # subs[j]
    /\ (\A c \in AllConns : spc[c] \in {"idle", "closed"}) => subs = <<>>

\* C15: when the request context of a /log-stream handler is cancelled the
\* handler eventually returns with its mailbox removed from the subscriber
\* list, and the list never holds more mailboxes than there are handlers that
\* have subscribed and not yet returned.
C15_CancelUnsubscribes ==
    /\ []C15_NoLeakedMailbox
    /\ \A c \in Streams :
           ctxDone[c] ~> (spc[c] = "closed" /\ \A i \in 1 .. Len(subs) : subs[i] # c)

\* C15 witness: both clients were served and have disconnected, one of them
\* with events written to it, and the subscriber list is empty again.
C15_Witness ==
    /\ \A c \in Streams : spc[c] = "closed" /\ ctxDone[c]
    /\ \E c \in Streams : Len(written[c]) > Len(existing[c])
    /\ subs = <<>>

(* ------------------------- claims on /printers ------------------------ *)

\* The printers the last listPrinters call found.
PrintersFound ==
    ListPrinters(lpstat.a, IF lpstat.a.fails THEN lpstat.b ELSE lpstat.a).elems

\* C17: the body of every GET /printers response is a JSON array, and when
\* no print queue was found (the lpstat commands failed, or listed nothing)
\* it is the empty array [], not null.
C17_PrintersBodyIsArray ==
    exchange.req.endpoint = "/printers" =>
        /\ exchange.resp.status = StatusOK
        /\ exchange.resp.body[1] = <<"[">>
        /\ PrintersFound = <<>> => exchange.resp.body = << <<"[">>, <<"]">>, <<"\n">> >>

(* -------------------------- claims on /status ------------------------- *)

\* C19, in every step: a step in which a GET /status request is answered
\* leaves the job history, the next id, the subscriber list and the mailboxes
\* as they were.
C19_StatusChangesNothing ==
    statusCalls' # statusCalls => UNCHANGED <<jobs, nextID, subs, mailbox, recorded>>

\* C19: GET /status is idempotent: however the calls are interleaved with
\* print and /log-stream requests, they leave the job history, the next
\* sequence id and the subscriber list unchanged, and every JobEvent comes
\* from a print attempt.
C19_StatusIsIdempotent ==
    /\ [][C19_StatusChangesNothing]_vars
    /\ [](Len(jobs) <= started /\ nextID <= started + 1)

\* C19 witness: two /status calls were answered 200 while a job was in the
\* history, a print handler was inside appendJob and a connection subscribed.
C19_Witness ==
    /\ statusCalls = 2
    /\ exchange.req = StatusRequest
    /\ exchange.resp.status = StatusOK
    /\ Len(jobs) = 1
    /\ hpc[1] = "aj_append"
    /\ subs = <<1>>

(* ---------------------- claims on the bridge client ------------------- *)

\* C20, in every state: no two consecutive onChange calls carry the same
\* value, lastState is the value reported last, and once a poll has resolved
\* there has been an onChange call.
C20_NoRepeatedReport ==
    /\ \A i \in 1 .. Len(onChangeCalls[1]) - 1 :
           onChangeCalls[1][i] # onChangeCalls[1][i + 1]
    /\ lastState[1] = IF onChangeCalls[1] = <<>> THEN "null"
                      ELSE onChangeCalls[1][Len(onChangeCalls[1])]
    /\ polls[1] - inflight[1] > 0 => onChangeCalls[1] # <<>>

\* C20, in every step: onChange is called only by a poll that resolves, once,
\* with a value that differs from the last one reported; the first poll to
\* resolve always calls it.
C20_ReportOnlyOnChange ==
    /\ onChangeCalls'[1] # onChangeCalls[1] =>
           /\ inflight'[1] = inflight[1] - 1
           /\ Len(onChangeCalls'[1]) = Len(onChangeCalls[1]) + 1
           /\ SubSeq(onChangeCalls'[1], 1, Len(onChangeCalls[1])) = onChangeCalls[1]
           /\ onChangeCalls'[1][Len(onChangeCalls'[1])] # lastState[1]
    /\ (polls[1] - inflight[1] = 0 /\ inflight'[1] < inflight[1])
           => Len(onChangeCalls'[1]) = 1

\* C20: within one startBridgeStatusPolling call onChange is invoked only when
\* the polled connection state differs from the last state reported, so no
\* two consecutive invocations carry the same value, and the first poll
\* result is always reported.
C20_PollingDeduplicates == []C20_NoRepeatedReport /\ [][C20_ReportOnlyOnChange]_vars

\* C20 witness: five polls have resolved and three changes were reported:
\* connected, lost, connected again.
C20_Witness ==
    /\ polls[1] = 5
    /\ inflight[1] = 0
    /\ onChangeCalls[1] = <<"true", "false", "true">>

\* C27: after the cleanup function has been called, onChange is never invoked
\* again, not even by a status poll that was in flight when cleanup ran.
C27_NoOnChangeAfterCleanup ==
    [][\A p \in Pollers : cleaned[p] => onChangeCalls'[p] = onChangeCalls[p]]_vars

\* The interval timer created by call p is running.
Polling(p) == p \in intervals

\* C28: each cleanup function stops the polling started by its own call: a
\* started poller's interval runs exactly until its own cleanup is called, so
\* calling the first one's cleanup leaves the second polling and after both
\* cleanups no interval timer is left.
C28_CleanupStopsOwnPoller ==
    \A p \in Pollers : polls[p] > 0 => (Polling(p) <=> ~cleaned[p])


(* ------------------------ claims on the two locks ---------------------- *)

\* C22, in every state: no handler goroutine holds jobMu and subsMu together;
\* appendJob holds jobMu only between Lock() and Unlock() and subsMu only in
\* the broadcast loop; handleLogStream holds its read lock only while it
\* copies the history.  (jobMuW and subsMu name a handler goroutine, jobMuR
\* holds stream goroutines; a stream takes subsMu only inside subscribe and
\* unsubscribe.)
C22_LocksHeldApart ==
    /\ \A h \in Handlers :
           /\ ~(jobMuW = h /\ subsMu = h)
           /\ jobMuW = h => hpc[h] \in {"aj_id", "aj_inc", "aj_append", "aj_trim"}
           /\ subsMu = h => hpc[h] = "bc_send"
    /\ \A c \in AllConns : c \in jobMuR => spc[c] = "snap"

\* C22, in every step: handleLogStream writes replay events and calls
\* subscribe without its read lock on jobMu, and appendJob takes subsMu
\* without jobMu.
C22_LockFreeReplayAndSubscribe ==
    /\ \A c \in AllConns :
           (written'[c] # written[c] \/ subs' # subs) /\ spc'[c] # spc[c]
               => c \notin jobMuR
    /\ \A h \in Handlers :
           (subsMu # h /\ subsMu' = h) => (jobMuW # h /\ jobMuW' # h)

\* C22: no goroutine ever holds jobMu and subsMu at the same time: appendJob
\* releases jobMu before taking subsMu, and handleLogStream releases its read
\* lock before it writes replay events or calls subscribe.
C22_NeverBothLocks == []C22_LocksHeldApart /\ [][C22_LockFreeReplayAndSubscribe]_vars

\* C22 witness: appendJob is in its broadcast loop under subsMu, with its
\* event already in the history, while a stream handler holds the read lock
\* on jobMu and another one has replayed and subscribed.
C22_Witness ==
    /\ subsMu = 1
    /\ hpc[1] = "bc_send"
    /\ Len(jobs) > 0
    /\ \E c, d \in Streams :
           /\ c \in jobMuR
           /\ d \in {subs[i] : i \in 1 .. Len(subs)}

(* ------------------- claims on sendToPrinter's errors ------------------ *)

\* the operating-system calls of sendToPrinter, in program order
SendCalls == <<"CreateTemp", "Write", "Close", "lp">>

\* The handler's sendToPrinter call has returned and its request is not yet
\* answered.
Returned(h) ==
    hpc[h] \in {"aj_lock", "aj_id", "aj_inc", "aj_append", "aj_trim", "bc_lock",
                "bc_send", "respond"}

\* C26, during and after a call: the calls are made in program order, and a
\* call is made only when every earlier one succeeded, so nothing (lp least of
\* all) follows a failed step.
C26_StopsAtFirstFailure ==
    \A h \in Handlers :
        (InSendToPrinter(h) \/ Returned(h)) =>
            /\ Len(steps[h]) \in 1 .. Len(SendCalls)
            /\ \A i \in 1 .. Len(steps[h]) :
                   /\ steps[h][i][1] = SendCalls[i]
                   /\ i < Len(steps[h]) => steps[h][i][2] = "ok"
            /\ lpRuns[h] = Cardinality({i \in 1 .. Len(steps[h]) :
                                            steps[h][i][1] = "lp"})

\* C26, once the call has returned: the result is nil exactly when all four
\* calls were made and succeeded; otherwise the last call made is the one that
\* failed, the error names it, and an lp failure carries lp's combined output.
C26_ReturnValue ==
    \A h \in Handlers :
        Returned(h) =>
            LET n == Len(steps[h])
                last == steps[h][n]
            IN /\ err[h] = <<>> <=>
                      (n = Len(SendCalls) /\ \A i \in 1 .. n : steps[h][i][2] = "ok")
               /\ err[h] # <<>> =>
                      /\ last[2] # "ok"
                      /\ err[h][1] = (CASE last[1] = "CreateTemp" -> "create temp file: "
                                        [] last[1] = "Write" -> "write temp file: "
                                        [] last[1] = "Close" -> "close temp file: "
                                        [] last[1] = "lp" -> "lp command failed: ")
                      /\ last[1] = "lp" =>
                             /\ Len(err[h]) = 4
                             /\ err[h][3] = "\noutput: "
                             /\ err[h][4] = "lp-output"
                      /\ last[1] # "lp" => lpRuns[h] = 0

\* C26: sendToPrinter returns nil only when the temp file was created, fully
\* written and closed and lp exited with status 0; a failing step returns an
\* error at once, lp is never spawned after a write or close failure, and an
\* lp failure yields an error that carries lp's combined output.
C26_NilOnlyWhenAllStepsSucceed == C26_StopsAtFirstFailure /\ C26_ReturnValue

\* C26 witness: one call has returned the error of a failed lp command with
\* its output, another the error of a failed tmp.Write, with no lp spawned.
C26_Witness ==
    \E g, h \in Handlers :
        /\ Returned(g) /\ Returned(h)
        /\ steps[g] = <<<<"CreateTemp", "ok">>, <<"Write", "ok">>, <<"Close", "ok">>,
                        <<"lp", "lp">>>>
        /\ err[g][4] = "lp-output"
        /\ steps[h] = <<<<"CreateTemp", "ok">>, <<"Write", "write">>>>
        /\ err[h][1] = "write temp file: "
        /\ lpRuns[h] = 0

(* ------------------------- claims on PrintPanel ------------------------ *)

\* the message printBrf rejects with for a response that is not 2xx
BridgeReturned(res) ==
    <<"Bridge returned ", ToString(res.status), ": ",
      IF res.textFails THEN "" ELSE res.body>>

\* C21, in every state: a panel that shows success has had a 2xx response to
\* its print.
C21_SuccessOnly2xx ==
    status = "success" =>
        /\ lastFetch # NoFetch
        /\ ~lastFetch.throws
        /\ lastFetch.status \in 200 .. 299

\* C21, in every step: when the fetch of a print settles with a response that
\* is not 2xx, the panel ends in 'error' and shows the message of printBrf's
\* error, which holds the status and the response body.
C21_Non2xxShownAsError ==
    (printCall # NoPrintCall /\ printCall' = NoPrintCall) =>
        /\ status = "printing"
        /\ status' \in {"success", "error"}
        /\ status' = "success" <=>
               (~lastFetch'.throws /\ lastFetch'.status \in 200 .. 299)
        /\ (~lastFetch'.throws /\ lastFetch'.status \notin 200 .. 299) =>
               /\ status' = "error"
               /\ errorMsg' = BridgeReturned(lastFetch')
               /\ ~lastFetch'.textFails => errorMsg'[4] = lastFetch'.body

C24_ChunksWithinMaxSize ==
    \A i \in 1 .. Len(chunks) : Len(chunks[i]) <= maxSize

RECURSIVE Join(_)
\* the chunks one after the other
Join(cs) == IF cs = <<>> THEN <<>> ELSE Head(cs) \o Join(Tail(cs))

\* C25, in every state of a call: the chunks made so far are the text up to
\* start, in order, and all of it once the call has returned; no chunk of a
\* non-empty text is empty; the result is what the function computes.
C25_ChunksAreTheText ==
    splitPc # "idle" =>
        /\ start <= Len(text)
        /\ Join(chunks) = Slice(text, 0, IF splitPc = "done" THEN Len(text) ELSE start)
        /\ text # <<>> => \A i \in 1 .. Len(chunks) : chunks[i] # <<>>
        /\ splitPc = "done" => chunks = SplitIntoChunks(text, maxSize)

\* C25, in every step of the loop: a pass that does not end the loop moves
\* start forward.
C25_LoopAdvances ==
    (splitPc = "loop" /\ splitPc' = "loop") => start' > start

\* C25: splitIntoChunks loses and invents nothing: for every text and
\* maxSize >= 1 the loop terminates, every returned chunk is non-empty when
\* text is non-empty, and concatenating the chunks in order reproduces text.
C25_SplitLosesNothing ==
    /\ []C25_ChunksAreTheText
    /\ [][C25_LoopAdvances]_vars
    /\ (splitPc = "loop") ~> (splitPc = "done")

\* C25 witness: a call has returned three chunks, the first cut after a
\* paragraph break, the second after a line break.
C25_Witness ==
    /\ splitPc = "done"
    /\ Len(chunks) = 3
    /\ chunks[1] = <<"\n", "\n">>
    /\ chunks[2] = <<"a", "\n">>
    /\ Join(chunks) = text

(* -------------------------- claims on useBraille ----------------------- *)

\* C23, in every step: the hook applies a RESULT only when it answers the
\* latest translate() call; a response to an older call is discarded.
C23_StaleResponseDiscarded ==
    shownFor' # shownFor => shownFor' = Len(translateCalls)

\* C23, in every state: once all responses have arrived, translatedText is
\* the result of the last translate() call (unless that call gave an error).
C23_LastResultShown ==
    (translateCalls # <<>> /\ workerQueue = <<>> /\ responses = <<>>
         /\ hook.error = <<>>) =>
        /\ shownFor = Len(translateCalls)
        /\ LET last == translateCalls[Len(translateCalls)]
           IN hook.translatedText =
                  IF Trim(last) = <<>> THEN <<>>
                  ELSE TranslateString("en-ueb-g2.ctb", last).brf

\* C23: the user always sees the result of the most recently requested
\* translation: useBraille stamps every translate() call with a serial and
\* discards any worker response older than the latest dispatched one, so once
\* all responses have arrived translatedText is the result of the last call.
C23_LatestTranslationShown ==
    []C23_LastResultShown /\ [][C23_StaleResponseDiscarded]_vars

(* ------------------------ claims on PerkinsViewer ---------------------- *)

\* C29: in every render with non-empty text the index used to read the
\* current character lies in 0 .. characters.length - 1, also in the render
\* that directly follows rawText shrinking below the current index.
C29_IndexInBounds ==
    render.reads => (render.index \in 0 .. render.length - 1 /\ ~render.threw)

(* --------------------------- claims on hexDump ------------------------- *)

\* the number of characters of a row before its " |" separator
GutterColumn(row) ==
    (CHOOSE k \in 1 .. Len(row) :
         row[k] = "|" /\ \A l \in 1 .. k - 1 : row[l] # "|") - 2

\* C30: for every input of 1 to 256 bytes every output row, whatever its
\* byte count from 1 to 16, has as many characters before the " |" separator
\* as a full 16-byte row, and at most 16 rows are produced for longer inputs.
C30_GutterAligned ==
    /\ Len(dumpOut) <= 16
    /\ \A r \in 1 .. Len(dumpOut) :
           GutterColumn(dumpOut[r]) = GutterColumn(HexRow(0, [k \in 1 .. RowBytes |-> 65]))

=========================================================================
